---------------------------- MODULE Spec2Model ----------------------------
(***************************************************************************)
(* BlockHashAggStage (src/mongo/db/exec/sbe/stages/block_hashagg.cpp):     *)
(* the vectorized hash aggregation stage.  open() consumes blocks of rows  *)
(* from its child, accumulates them into the hash table _ht either one     *)
(* partition at a time (tokenized path) or one row at a time (element-wise *)
(* path), spills the table to a record store, and getNext() drains either  *)
(* the table or the record store into output blocks.                       *)
(***************************************************************************)
EXTENDS Integers, Sequences, FiniteSets, TLC

(***************************************************************************)
(* Bounds of the model.                                                    *)
(***************************************************************************)
\* Blocks the child stage returns in one execution, at most.
MaxBlocks == 2
\* Rows of one input block, at most.
MaxRows == 3

\* Values of the group-by columns: the first varies from row to row, the
\* second is a scalar of the child, which open() turns into a MonoBlock.
GbVals == <<{0, 1, 2}, {5}>>
\* _groupSlots.size(): the group-by columns.
NumGbs == 2
\* _blockRowAggs.size(): the accumulators (0: count, 1: sum of the data column).
NumAggs == 2

(***************************************************************************)
(* Constants of block_hashagg.h (the header is not among the sources: the  *)
(* values here are scaled down so that blocks of MaxRows rows reach them). *)
(***************************************************************************)
kMaxNumPartitionsForTokenizedPath == 2
kBlockOutSize == 2

(***************************************************************************)
(* Values.  A value is a (tag, val) pair as in value::TypeTags/Value.      *)
(***************************************************************************)
Nothing == <<"Nothing", 0>>
MkInt(n) == <<"NumberInt64", n>>

\* The integer behind an accumulator value, Nothing counting as no rows yet.
IntOf(v) == IF v[1] = "Nothing" THEN 0 ELSE v[2]

RECURSIVE SeqSum(_)
SeqSum(s) == IF s = <<>> THEN 0 ELSE s[1] + SeqSum(Tail(s))

\* The group-by keys (value::MaterializedRow of NumGbs values).
Keys == {k \in [1..NumGbs -> UNION {GbVals[c] : c \in 1..NumGbs}] :
            \A c \in 1..NumGbs : k[c] \in GbVals[c]}

\* A plausible slip: the new slots are set to a zero, not left empty.
ResizedRowOfZeros(n) == [i \in 1..n |-> <<"NumberInt64", 0>>]

\* A MaterializedRow{0} resized to n: n slots of Nothing.
ResizedRow(n) == [i \in 1..n |-> Nothing]

(***************************************************************************)
(* Input blocks: a selection bitmap, NumGbs group-by columns and one data  *)
(* column, all of the same length.  Row i of the data column holds         *)
(* 2^(i-1), so that the sum accumulator of a group tells which rows of a   *)
(* block went into it.                                                     *)
(***************************************************************************)
DataCol(n) == [i \in 1..n |-> 2 ^ (i - 1)]

\* makeMonoBlock(): a scalar as a block of _currentBlockSize copies.
makeMonoBlock(n, val) == [i \in 1..n |-> val]

InputBlocks ==
    UNION {
        { [bits |-> bs, gbs |-> <<g, makeMonoBlock(n, v)>>, data |-> <<DataCol(n)>>] :
            bs \in [1..n -> BOOLEAN], g \in [1..n -> GbVals[1]], v \in GbVals[2] }
        : n \in 1..MaxRows }

\* No block: before the first pull, and after an iteration of open()'s loop
\* has discarded its blocks.
NoBlock == [bits |-> <<>>, gbs |-> [c \in 1..NumGbs |-> <<>>], data |-> << <<>> >>]

\* The group-by key of row i of a block.
KeyOfRow(gbs, i) == [c \in 1..Len(gbs) |-> gbs[c][i]]

(***************************************************************************)
(* Accumulator expressions.  The compiled expressions are opaque to the    *)
(* stage; the model instantiates them with a count and a sum, each in its  *)
(* block-level, row-level and merging form.                                *)
(***************************************************************************)
\* _bytecode.run(_aggCodes[i]): the row-level accumulator on one row.
RowAgg(i, prev, dataVal) ==
    IF i = 1 THEN MkInt(IntOf(prev) + 1) ELSE MkInt(IntOf(prev) + dataVal)

\* _bytecode.run(_blockLevelAggCodes[i]): the block-level accumulator on the
\* rows the bitset selects.
BlockAgg(i, prev, bitset, data) ==
    LET sel == {r \in 1..Len(bitset) : bitset[r]}
    IN  IF i = 1
        THEN MkInt(IntOf(prev) + Cardinality(sel))
        ELSE MkInt(IntOf(prev) + SeqSum([r \in 1..Len(bitset) |->
                                            IF bitset[r] THEN data[1][r] ELSE 0]))

\* _bytecode.run(_mergingExprCodes[i]): merges a spilled partial aggregate
\* into the running one.
MergeAgg(i, prev, spilled) == MkInt(IntOf(prev) + IntOf(spilled))


(***************************************************************************)
(* Bitmap helpers.                                                         *)
(***************************************************************************)
\* A plausible slip: a bitset with a false bit counts as all false.
someFalse(bitset) == \E i \in 1..Len(bitset) : ~bitset[i]

\* allFalse(): no bit of the bitset is true.
RECURSIVE AllFalseFrom(_, _)
AllFalseFrom(deblocked, i) ==
    IF i > Len(deblocked) THEN TRUE
    ELSE IF deblocked[i] THEN FALSE
    ELSE AllFalseFrom(deblocked, i + 1)

allFalse(bitset) == AllFalseFrom(bitset, 1)

\* computeBitmapForPartition(): bit i tells whether row i is of the partition.
computeBitmapForPartition(partitionMap, partition) ==
    [i \in 1..Len(partitionMap) |-> partitionMap[i] = partition]

\* bitAnd(): the pairwise AND of two bitsets of equal size.
bitAnd(bitset1, bitset2) ==
    [i \in 1..Len(bitset1) |-> bitset1[i] /\ bitset2[i]]

(***************************************************************************)
(* Tokenization.                                                           *)
(***************************************************************************)
\* ValueBlock::tokenize(): the distinct values of a column in order of first
\* appearance, and for each row the (0-based) position of its value there.
RECURSIVE TokenizeFrom(_, _, _, _)
TokenizeFrom(col, i, tokens, idxs) ==
    IF i > Len(col) THEN [tokens |-> tokens, idxs |-> idxs]
    ELSE IF \E j \in 1..Len(tokens) : tokens[j] = col[i]
    THEN LET j == CHOOSE j \in 1..Len(tokens) : tokens[j] = col[i]
         IN  TokenizeFrom(col, i + 1, tokens, Append(idxs, j - 1))
    ELSE TokenizeFrom(col, i + 1, Append(tokens, col[i]), Append(idxs, Len(tokens)))

Tokenize(col) == TokenizeFrom(col, 1, <<>>, <<>>)

\* boost::none of tokenizeTokenInfos().
NoTokenizedKeys == [ok |-> FALSE, keys |-> <<>>, idxs |-> <<>>]

\* A plausible slip of the ceiling test: the ceiling itself already fails.
TooManyPartitionsAtCeiling(uniqueCount) ==
    uniqueCount >= kMaxNumPartitionsForTokenizedPath

\* tokenizeTokenInfos(), the ceiling test on the partitions counted so far,
\* the new one included.
TooManyPartitions(uniqueCount) ==
    uniqueCount > kMaxNumPartitionsForTokenizedPath

\* A plausible slip: the partition is numbered after the count was raised.
PartitionAfterIncrement(uniqueCount) == uniqueCount + 1

\* tokenizeTokenInfos(): the partition number of a compound key seen for the
\* first time, the count of the keys seen before it.
NewPartition(uniqueCount) == uniqueCount

\* The loop of tokenizeTokenInfos() from row blockIdx on.  keyMap maps the
\* compound keys seen so far to their partition number.
RECURSIVE TokenizeLoop(_, _, _, _, _, _)
TokenizeLoop(tokenInfos, blockIdx, keyMap, uniqueCount, keys, idxs) ==
    IF blockIdx > Len(tokenInfos[1].idxs)
    THEN [ok |-> TRUE, keys |-> keys, idxs |-> idxs]
    ELSE LET htKey == [keyIdx \in 1..Len(tokenInfos) |->
                          tokenInfos[keyIdx].idxs[blockIdx]]
             inserted == htKey \notin DOMAIN keyMap
         IN  IF inserted
             THEN IF TooManyPartitions(uniqueCount + 1)
                  THEN NoTokenizedKeys
                  ELSE LET key == [keyIdx \in 1..Len(tokenInfos) |->
                                      tokenInfos[keyIdx].tokens[htKey[keyIdx] + 1]]
                           km == [x \in DOMAIN keyMap \cup {htKey} |->
                                     IF x \in DOMAIN keyMap THEN keyMap[x]
                                     ELSE NewPartition(uniqueCount)]
                       IN  TokenizeLoop(tokenInfos, blockIdx + 1, km,
                                        uniqueCount + 1, Append(keys, key),
                                        Append(idxs, km[htKey]))
             ELSE TokenizeLoop(tokenInfos, blockIdx + 1, keyMap, uniqueCount,
                               keys, Append(idxs, keyMap[htKey]))

\* tokenizeTokenInfos(): the distinct keys of the block and each row's
\* partition, or boost::none with too many partitions.
tokenizeTokenInfos(tokenInfos) ==
    TokenizeLoop(tokenInfos, 1, [x \in {} |-> 0], 0, <<>>, <<>>)

\* tryTokenizeGbs(): tokenizes every group-by block, then the compound keys.
tryTokenizeGbs(gbBlocks) ==
    tokenizeTokenInfos([i \in 1..Len(gbBlocks) |-> Tokenize(gbBlocks[i])])

(***************************************************************************)
(* The hash table _ht: a function from the keys present to their rows of   *)
(* accumulator values (an unordered_map holds one entry per key).  The     *)
(* accumulation steps thread through a record of the table and the counts  *)
(* of what they did: st.ht, st.aggRuns (runs of accumulator code),         *)
(* st.finds (_ht->find calls) and st.calls (the runs of accumulator code   *)
(* in order, each with what was bound when it ran).                        *)
(***************************************************************************)
EmptyHt == [k \in {} |-> ResizedRow(NumAggs)]

\* _ht->emplace(key, row): inserts unless the key is present.
Emplace(h, key, row) ==
    [k \in DOMAIN h \cup {key} |-> IF k \in DOMAIN h THEN h[k] ELSE row]

\* A plausible slip: a miss makes a fresh table for the new key.
BlockLevelEmplaceIntoFreshTable(h, key) ==
    IF key \notin DOMAIN h
    THEN Emplace(EmptyHt, key, ResizedRow(NumAggs))
    ELSE h

\* executeBlockLevelAccumulatorCode(), the find-or-emplace of the key.
BlockLevelFindOrEmplace(h, key) ==
    IF key \notin DOMAIN h
    THEN Emplace(h, key, ResizedRow(NumAggs))
    ELSE h

\* A plausible slip: the accumulators are initialized on every lookup.
RowLevelAlwaysInitialize(h, key) ==
    [k \in DOMAIN h \cup {key} |-> IF k = key THEN ResizedRow(NumAggs) ELSE h[k]]

\* executeRowLevelAccumulatorCode(), the find-or-emplace of the key.
RowLevelFindOrEmplace(h, key) ==
    IF key \notin DOMAIN h
    THEN Emplace(h, key, ResizedRow(NumAggs))
    ELSE h

\* The runs of the block-level accumulators for one partition: _htIt is at
\* the entry of key, _accumulatorBitsetAccessor holds accBitset.
BlockLevelCalls(key, accBitset) ==
    [i \in 1..NumAggs |-> [path |-> "block", key |-> key, acc |-> i,
                           bitset |-> accBitset]]

\* A plausible slip: no early return on an all-false bitset.
executeBlockLevelWithoutAllFalse(st, key, accBitset, dataBlocks) ==
    LET h == BlockLevelFindOrEmplace(st.ht, key)
        row == [i \in 1..NumAggs |-> BlockAgg(i, h[key][i], accBitset, dataBlocks)]
    IN  [ht |-> [h EXCEPT ![key] = row],
         aggRuns |-> st.aggRuns + NumAggs,
         finds |-> st.finds + 1,
         calls |-> st.calls \o BlockLevelCalls(key, accBitset)]

\* executeBlockLevelAccumulatorCode(key), with the bitset bound to
\* _accumulatorBitsetAccessor and the data blocks to the data accessors.
executeBlockLevelAccumulatorCode(st, key, accBitset, dataBlocks) ==
    IF allFalse(accBitset) THEN st
    ELSE LET h == BlockLevelFindOrEmplace(st.ht, key)
             row == [i \in 1..NumAggs |-> BlockAgg(i, h[key][i], accBitset, dataBlocks)]
         IN  [ht |-> [h EXCEPT ![key] = row],
              aggRuns |-> st.aggRuns + NumAggs,
              finds |-> st.finds + 1,
              calls |-> st.calls \o BlockLevelCalls(key, accBitset)]

\* A plausible slip: the partition bitmap is not ANDed with the input bitmap.
PartitionBitsetWithoutInput(tokenizedKeys, bitmapBlock, partition) ==
    IF Len(tokenizedKeys.keys) > 1
    THEN computeBitmapForPartition(tokenizedKeys.idxs, partition)
    ELSE bitmapBlock

\* A plausible slip: the shortcut for one partition binds the bitmap that
\* computeBitmapForPartition() would give, all ones.
PartitionBitsetShortcutAllOnes(tokenizedKeys, bitmapBlock, partition) ==
    IF Len(tokenizedKeys.keys) > 1
    THEN bitAnd(computeBitmapForPartition(tokenizedKeys.idxs, partition), bitmapBlock)
    ELSE computeBitmapForPartition(tokenizedKeys.idxs, partition)

\* The bitset runAccumulatorsTokenized() binds for a partition.
PartitionBitset(tokenizedKeys, bitmapBlock, partition) ==
    IF Len(tokenizedKeys.keys) > 1
    THEN bitAnd(computeBitmapForPartition(tokenizedKeys.idxs, partition), bitmapBlock)
    ELSE bitmapBlock

\* The loop of runAccumulatorsTokenized() from a partition (0-based) on.
RECURSIVE TokenizedLoop(_, _, _, _, _)
TokenizedLoop(st, tokenizedKeys, bitmapBlock, dataBlocks, partition) ==
    IF partition >= Len(tokenizedKeys.keys) THEN st
    ELSE TokenizedLoop(
            executeBlockLevelAccumulatorCode(
                st, tokenizedKeys.keys[partition + 1],
                PartitionBitset(tokenizedKeys, bitmapBlock, partition), dataBlocks),
            tokenizedKeys, bitmapBlock, dataBlocks, partition + 1)

runAccumulatorsTokenized(st, tokenizedKeys, bitmapBlock, dataBlocks) ==
    TokenizedLoop(st, tokenizedKeys, bitmapBlock, dataBlocks, 0)

\* A plausible slip: the data accessors stay at the block's first row.
RowInputOfFirstRow(extractedData, blockIndex) == extractedData[1][1]

\* executeRowLevelAccumulatorCode(): the value _accumulatorDataAccessors is
\* reset to for the row blockIndex.
RowInput(extractedData, blockIndex) == extractedData[1][blockIndex]

\* The runs of the row-level accumulators for one row: _htIt is at the entry
\* of key, the data accessor holds input.
RowLevelCalls(blockIndex, key, input) ==
    [i \in 1..NumAggs |-> [path |-> "row", row |-> blockIndex, key |-> key,
                           acc |-> i, input |-> input]]

\* The loop of executeRowLevelAccumulatorCode() from row blockIndex on.
RECURSIVE RowLevelLoop(_, _, _, _, _)
RowLevelLoop(st, extractedBitmap, extractedGbs, extractedData, blockIndex) ==
    IF blockIndex > Len(extractedBitmap) THEN st
    ELSE IF ~extractedBitmap[blockIndex]
    THEN RowLevelLoop(st, extractedBitmap, extractedGbs, extractedData, blockIndex + 1)
    ELSE LET key == KeyOfRow(extractedGbs, blockIndex)
             h == RowLevelFindOrEmplace(st.ht, key)
             input == RowInput(extractedData, blockIndex)
             row == [i \in 1..NumAggs |-> RowAgg(i, h[key][i], input)]
         IN  RowLevelLoop([ht |-> [h EXCEPT ![key] = row],
                           aggRuns |-> st.aggRuns + NumAggs,
                           finds |-> st.finds + 1,
                           calls |-> st.calls \o RowLevelCalls(blockIndex, key, input)],
                          extractedBitmap, extractedGbs, extractedData, blockIndex + 1)

\* A plausible slip: the rows' selection bits are not looked at.
executeRowLevelWithoutBitCheck(st, extractedBitmap, extractedGbs, extractedData) ==
    RowLevelLoop(st, [i \in 1..Len(extractedBitmap) |-> TRUE], extractedGbs,
                 extractedData, 1)

executeRowLevelAccumulatorCode(st, extractedBitmap, extractedGbs, extractedData) ==
    RowLevelLoop(st, extractedBitmap, extractedGbs, extractedData, 1)

\* runAccumulatorsElementWise(): deblocks everything and runs the row-level
\* accumulators.
runAccumulatorsElementWise(st, bitmapBlock, gbBlocks, dataBlocks) ==
    executeRowLevelAccumulatorCode(st, bitmapBlock, gbBlocks, dataBlocks)

\* A plausible slip: the element-wise path runs after the tokenized one too.
AccumulateBothPaths(h, tokenizedKeys, bitmapBlock, gbBlocks, dataBlocks) ==
    LET st == [ht |-> h, aggRuns |-> 0, finds |-> 0, calls |-> <<>>]
        tk == IF tokenizedKeys.ok
              THEN runAccumulatorsTokenized(st, tokenizedKeys, bitmapBlock, dataBlocks)
              ELSE st
    IN  runAccumulatorsElementWise(tk, bitmapBlock, gbBlocks, dataBlocks)

\* open(), lines 616-627: the accumulation of one block by the path the
\* tokenization result selects.
Accumulate(h, tokenizedKeys, bitmapBlock, gbBlocks, dataBlocks) ==
    LET st == [ht |-> h, aggRuns |-> 0, finds |-> 0, calls |-> <<>>]
    IN  IF tokenizedKeys.ok
        THEN runAccumulatorsTokenized(st, tokenizedKeys, bitmapBlock, dataBlocks)
        ELSE runAccumulatorsElementWise(st, bitmapBlock, gbBlocks, dataBlocks)

(***************************************************************************)
(* The state of the stage and of its child.                                *)
(***************************************************************************)
VARIABLES
    forceIncreasedSpilling, \* _forceIncreasedSpilling, set by the constructor
    pc,               \* where the caller and open() stand
    childEOF,         \* the child has returned IS_EOF since it was opened
    childPulls,       \* getNext calls on the child that returned ADVANCED
    childCloses,      \* close calls on the child
    childRows,        \* per key, the selected rows the child returned since open()
    bitmapBlock,      \* _bitmapBlock, deblocked
    gbBlocks,         \* _gbBlocks, deblocked
    dataBlocks,       \* _dataBlocks, deblocked
    currentBlockSize, \* _currentBlockSize
    tokenizedKeys,    \* open()'s local tokenizedKeys of the current block
    aggRuns,          \* runs of accumulator code for the current block
    finds,            \* _ht->find calls for the current block
    aggCalls,         \* the runs of accumulator code for the current block, in order
    htBefore,         \* *_ht as the current iteration of open()'s loop found it
    htEngaged,        \* _ht holds a table (boost::optional)
    ht,               \* *_ht
    htOrder,          \* the iteration order of *_ht once open() has returned
    htIt,             \* _htIt as a position in htOrder, Len(htOrder) + 1 for end()
    done,             \* _done
    recordStore,      \* _recordStore is set
    rsLog,            \* the records of _recordStore, in cursor order
    rsCursor,         \* _rsCursor: records read so far, NullCursor if not set
    stashedNextRow,   \* _stashedNextRow: <<>> or one record
    rowAggRS,         \* the values of _rowAggRSAccessors
    outIdBlocks,      \* _outIdBlocks
    outAggBlocks,     \* _outAggBlocks
    bitsetOut,        \* the value of _blockBitsetOutAccessor
    lastState,        \* what the last getNext() returned
    emitted,          \* the rows of every block returned since open()
    lastGroup,        \* what the last getNextSpilledHelper() returned, <<>> for none
    spills,           \* _specificStats.spills
    noSpillHt,        \* the table of this execution had no spill cleared it
    opens,            \* _commonStats.opens
    advances,         \* the ADVANCED results of getNext() since open()
    killPending,      \* _opCtx has an interruption (kill, deadline) pending
    raised,           \* the failure the last call raised to its caller, "none" if none
    \* makePlannerForCacheEntry() (cached_planner.cpp)
    plannerPc,        \* where a call of makePlannerForCacheEntry() stands
    decisionReads,    \* cachedPlanHolder->decisionWorks: <<>> or <<n>>
    candidate,        \* the CandidatePlan of the trial run, NoCandidate before it
    cacheEntryActive, \* the plan cache entry of the query is active
    registeredPlans,  \* the cached plan is registered with the yield policy
    replanCalls,      \* the calls of replan(), by their shouldCache argument
    planner,          \* the planner returned, NoPlanner before the return
    \* MeasurementMap (measurement_map.cpp)
    mapPc,            \* "constructed", "inUse" after initBuilders() or an insertOne()
    builders,         \* _builders: field name to the positions of its column
    measurementCount, \* _measurementCount
    compressedSize,   \* _compressedSize
    measurements      \* the measurements of the bucket, in order, field name to value

vars == <<forceIncreasedSpilling, pc, childEOF, childPulls, childCloses, childRows,
          bitmapBlock, gbBlocks, dataBlocks, currentBlockSize, tokenizedKeys,
          aggRuns, finds, aggCalls, htBefore, htEngaged, ht, htOrder, htIt, done, recordStore,
          rsLog, rsCursor, stashedNextRow, rowAggRS, outIdBlocks, outAggBlocks,
          bitsetOut, lastState, emitted, lastGroup, spills, noSpillHt,
          opens, advances, killPending, raised,
          plannerPc, decisionReads, candidate, cacheEntryActive, registeredPlans,
          replanCalls, planner,
          mapPc, builders, measurementCount, compressedSize, measurements>>

configVars == <<forceIncreasedSpilling>>
childVars == <<childEOF, childPulls, childCloses, childRows>>
blockVars == <<bitmapBlock, gbBlocks, dataBlocks, currentBlockSize,
               tokenizedKeys, aggRuns, finds, aggCalls, htBefore>>
tableVars == <<htEngaged, ht, htOrder, htIt>>
storeVars == <<recordStore, rsLog, rsCursor, stashedNextRow, rowAggRS, spills>>
outVars == <<outIdBlocks, outAggBlocks, bitsetOut, lastState, emitted, lastGroup,
             advances>>
failVars == <<killPending, raised>>
statVars == <<opens>>
plannerVars == <<plannerPc, decisionReads, candidate, cacheEntryActive, registeredPlans,
                 replanCalls, planner>>
mapVars == <<mapPc, builders, measurementCount, compressedSize, measurements>>
stageVars == <<configVars, pc, childVars, blockVars, tableVars, done, storeVars, outVars,
               noSpillHt, failVars, statVars>>

\* No trial run has made a candidate; no planner has been returned.
NoCandidate == [status |-> "none", exitedEarly |-> FALSE, numReads |-> 0, numResults |-> 0]
NoPlanner == [kind |-> "none", plan |-> "none", cachingMode |-> "none",
              replanReason |-> "none"]

\* Before makePlannerForCacheEntry() is called: the plan drawn from the cache
\* is registered with the yield policy and its cache entry is active.
PlannerIdle ==
    /\ plannerPc = "idle"
    /\ decisionReads = <<>>
    /\ candidate = NoCandidate
    /\ cacheEntryActive = TRUE
    /\ registeredPlans = TRUE
    /\ replanCalls = <<>>
    /\ planner = NoPlanner

\* MeasurementMap::MeasurementMap: no builders, no measurements.
MapConstructed ==
    /\ mapPc = "constructed"
    /\ builders = <<>>
    /\ measurementCount = 0
    /\ compressedSize = 0
    /\ measurements = <<>>

NullCursor == -1

\* The orders in which a table with the keys S may be iterated: the order of
\* an unordered_map is unspecified.
Orders(S) ==
    {o \in [1..Cardinality(S) -> S] :
        \A i, j \in 1..Cardinality(S) : i # j => o[i] # o[j]}

\* _blockBitsetOutAccessor before any getNext(): it owns nothing.
NoBitsetOut == [tag |-> "Nothing", owned |-> FALSE, block |-> <<>>]

\* A plausible slip: the bitmap is sized to the capacity of an output block.
populateBitmapSlotAtCapacity(n) ==
    [tag |-> "valueBlock", owned |-> TRUE, block |-> makeMonoBlock(kBlockOutSize, TRUE)]

\* populateBitmapSlot(n): the accessor gets to own a new MonoBlock of n trues.
populateBitmapSlot(n) ==
    [tag |-> "valueBlock", owned |-> TRUE, block |-> makeMonoBlock(n, TRUE)]

EmptyOutIds == [c \in 1..NumGbs |-> <<>>]
EmptyOutAggs == [i \in 1..NumAggs |-> <<>>]

Init ==
    /\ forceIncreasedSpilling \in BOOLEAN
    /\ pc = "unopened"
    /\ childEOF = FALSE
    /\ childPulls = 0
    /\ childCloses = 0
    /\ childRows = [k \in Keys |-> 0]
    /\ bitmapBlock = NoBlock.bits
    /\ gbBlocks = NoBlock.gbs
    /\ dataBlocks = NoBlock.data
    /\ currentBlockSize = 0
    /\ tokenizedKeys = NoTokenizedKeys
    /\ aggRuns = 0
    /\ finds = 0
    /\ aggCalls = <<>>
    /\ htBefore = EmptyHt
    /\ htEngaged = FALSE
    /\ ht = EmptyHt
    /\ htOrder = <<>>
    /\ htIt = 1
    /\ done = FALSE
    /\ recordStore = FALSE
    /\ rsLog = <<>>
    /\ rsCursor = NullCursor
    /\ stashedNextRow = <<>>
    /\ rowAggRS = ResizedRow(NumAggs)
    /\ outIdBlocks = EmptyOutIds
    /\ outAggBlocks = EmptyOutAggs
    /\ bitsetOut = NoBitsetOut
    /\ lastState = "none"
    /\ emitted = <<>>
    /\ lastGroup = <<>>
    /\ spills = 0
    /\ noSpillHt = EmptyHt
    /\ killPending = FALSE
    /\ raised = "none"
    /\ opens = 0
    /\ advances = 0
    /\ PlannerIdle
    /\ MapConstructed

(***************************************************************************)
(* open().                                                                 *)
(***************************************************************************)
\* open(reOpen) up to its loop: opens the child, makes an empty table and
\* resets the cursor of a record store that is still there.
Open(reOpen) ==
    /\ pc \in {"unopened", "opened", "closed"}
    /\ pc' = "pull"
    /\ childEOF' = FALSE
    /\ childPulls' = 0
    /\ childRows' = [k \in Keys |-> 0]
    /\ htEngaged' = TRUE
    /\ ht' = EmptyHt
    /\ htOrder' = <<>>
    /\ htIt' = 1
    /\ rsCursor' = IF recordStore THEN NullCursor ELSE rsCursor
    /\ done' = IF reOpen THEN FALSE ELSE done
    /\ lastState' = "none"
    /\ emitted' = <<>>
    /\ advances' = 0
    /\ noSpillHt' = EmptyHt
    /\ opens' = opens + 1
    /\ UNCHANGED <<plannerVars, mapVars, configVars, failVars, childCloses, blockVars, recordStore, rsLog,
                   stashedNextRow, rowAggRS, spills, outIdBlocks, outAggBlocks,
                   bitsetOut, lastGroup>>

\* The selected rows of the block b with the key k.
SelectedWithKey(b, k) ==
    {i \in 1..Len(b.bits) : b.bits[i] /\ KeyOfRow(b.gbs, i) = k}

\* tryTokenizeGbs(), the condition of tassert 8608600: every tokenized group-by
\* block has _currentBlockSize rows.
SameSizeGbs(gbs, size) ==
    \A i \in 1..Len(gbs) : Len(Tokenize(gbs[i]).idxs) = size

\* The body of open()'s loop up to the memory check: open() takes the block b
\* of the child, tokenizes its group-by columns and runs the accumulators.
AcceptBlock(b) ==
    /\ pc = "pull"
    /\ SameSizeGbs(b.gbs, Len(b.bits))
    /\ childPulls' = childPulls + 1
    /\ childRows' = [k \in Keys |-> childRows[k] + Cardinality(SelectedWithKey(b, k))]
    /\ bitmapBlock' = b.bits
    /\ currentBlockSize' = Len(b.bits)
    /\ gbBlocks' = b.gbs
    /\ dataBlocks' = b.data
    /\ tokenizedKeys' = tryTokenizeGbs(b.gbs)
    /\ htBefore' = ht
    /\ LET st == Accumulate(ht, tokenizedKeys', b.bits, b.gbs, b.data)
       IN  /\ ht' = st.ht
           /\ aggRuns' = st.aggRuns
           /\ finds' = st.finds
           /\ aggCalls' = st.calls
    /\ noSpillHt' = Accumulate(noSpillHt, tokenizedKeys', b.bits, b.gbs, b.data).ht
    /\ pc' = "memcheck"
    /\ UNCHANGED <<plannerVars, mapVars, configVars, failVars, statVars, childEOF, childCloses, htEngaged, htOrder, htIt,
                   done, storeVars, outVars>>

\* The child returns ADVANCED with the block b, one of MaxBlocks at most.
ChildAdvanced(b) ==
    /\ childPulls < MaxBlocks
    /\ AcceptBlock(b)

\* A plausible slip: the entries are written and stay in the table.
spillWithoutClear(s, order) ==
    [ht |-> s.ht,
     recordStore |-> TRUE,
     rsLog |-> s.rsLog \o [i \in 1..Len(order) |->
                              [key |-> order[i], aggs |-> s.ht[order[i]]]],
     spills |-> s.spills + 1]

\* HashAggBaseStage::spill(): writes every entry of the table to the record
\* store, in the table's order, and clears the table.
spill(s, order) ==
    [ht |-> EmptyHt,
     recordStore |-> TRUE,
     rsLog |-> s.rsLog \o [i \in 1..Len(order) |->
                              [key |-> order[i], aggs |-> s.ht[order[i]]]],
     spills |-> s.spills + 1]

SpillState == [ht |-> ht, recordStore |-> recordStore, rsLog |-> rsLog, spills |-> spills]

\* A plausible slip: open() returns after the first block.
AfterBlockReturn == "opened"

\* open() where a block's iteration goes on to: back to the loop's head.
AfterBlock == "pull"

\* A plausible slip: the memory check decides in force mode too.
SpillChoicesIgnoringForce(h, force) ==
    IF h = EmptyHt THEN {FALSE} ELSE BOOLEAN

\* open(), lines 629-639: whether the table is spilled after a block.  An
\* empty table is not; a non-empty one is if spilling is forced, and
\* otherwise if the memory check finds it over the budget.
SpillChoices(h, force) ==
    IF h = EmptyHt THEN {FALSE}
    ELSE IF force THEN {TRUE} ELSE BOOLEAN

\* The rest of the loop's iteration: a non-empty table is spilled if spilling
\* is forced or the memory check says so; the iteration's blocks are dropped.
MemCheck ==
    /\ pc = "memcheck"
    /\ \E doSpill \in SpillChoices(ht, forceIncreasedSpilling) :
       \E order \in Orders(DOMAIN ht) :
          LET s == IF doSpill THEN spill(SpillState, order) ELSE SpillState
          IN  /\ ht' = s.ht
              /\ recordStore' = s.recordStore
              /\ rsLog' = s.rsLog
              /\ spills' = s.spills
    /\ bitmapBlock' = NoBlock.bits
    /\ gbBlocks' = NoBlock.gbs
    /\ dataBlocks' = NoBlock.data
    /\ currentBlockSize' = 0
    /\ tokenizedKeys' = NoTokenizedKeys
    /\ aggRuns' = 0
    /\ finds' = 0
    /\ aggCalls' = <<>>
    /\ htBefore' = EmptyHt
    /\ pc' = AfterBlock
    /\ UNCHANGED <<plannerVars, mapVars, configVars, failVars, statVars, childVars, htEngaged, htOrder, htIt, done,
                   rsCursor, stashedNextRow, rowAggRS, outVars, noSpillHt>>

\* A plausible slip: what the table holds at the end of the input stays there.
FinalSpillSkipped(s) == FALSE

\* open() after its loop: a stage that has spilled spills a non-empty table.
FinalSpillNeeded(s) == s.recordStore /\ s.ht # EmptyHt

\* A plausible slip: open() leaves _htIt at the table's first entry.
ItAtBeginAfterOpen(order) == 1

\* open() leaves _htIt at _ht->end().
ItAfterOpen(order) == Len(order) + 1

\* The child returns IS_EOF: after a spill, what is left in the table is
\* spilled too and a cursor is set at the start of the record store.
ChildEOF ==
    /\ pc = "pull"
    /\ childEOF' = TRUE
    /\ \E order \in Orders(DOMAIN ht) :
          LET s == IF FinalSpillNeeded(SpillState)
                   THEN spill(SpillState, order) ELSE SpillState
          IN  /\ ht' = s.ht
              /\ recordStore' = s.recordStore
              /\ rsLog' = s.rsLog
              /\ spills' = s.spills
              /\ htOrder' = IF s.ht = EmptyHt THEN <<>> ELSE order
    /\ rsCursor' = IF recordStore THEN 0 ELSE rsCursor
    /\ htIt' = ItAfterOpen(htOrder')
    /\ pc' = "opened"
    /\ UNCHANGED <<plannerVars, mapVars, configVars, failVars, statVars, childPulls, childCloses, childRows, blockVars,
                   htEngaged, done, stashedNextRow, rowAggRS, outVars, noSpillHt>>

(***************************************************************************)
(* getNext().                                                              *)
(***************************************************************************)
\* processRow of getNextSpilledHelper(): merges a spilled row of partial
\* aggregates into the running values of _rowAggRSAccessors.
processRow(accs, spilledAggRow) ==
    [idx \in 1..NumAggs |-> MergeAgg(idx, accs[idx], spilledAggRow[idx])]

\* A plausible slip: the record that ends a group is read and not stashed.
RECURSIVE MergeLoopWithoutStash(_, _, _, _)
MergeLoopWithoutStash(log, firstKey, accs, cursor) ==
    IF cursor >= Len(log)
    THEN [key |-> <<firstKey>>, rowAggRS |-> accs, rsCursor |-> cursor,
          stashedNextRow |-> <<>>]
    ELSE LET recoveredRow == log[cursor + 1]
         IN  IF recoveredRow.key # firstKey
             THEN [key |-> <<firstKey>>, rowAggRS |-> accs, rsCursor |-> cursor + 1,
                   stashedNextRow |-> <<>>]
             ELSE MergeLoopWithoutStash(log, firstKey,
                                        processRow(accs, recoveredRow.aggs), cursor + 1)

\* The loop of getNextSpilledHelper(): merges the records that follow with
\* the key firstKey; the first record with another key is stashed.
RECURSIVE MergeLoop(_, _, _, _)
MergeLoop(log, firstKey, accs, cursor) ==
    IF cursor >= Len(log)
    THEN [key |-> <<firstKey>>, rowAggRS |-> accs, rsCursor |-> cursor,
          stashedNextRow |-> <<>>]
    ELSE LET recoveredRow == log[cursor + 1]
         IN  IF recoveredRow.key # firstKey
             THEN [key |-> <<firstKey>>, rowAggRS |-> accs, rsCursor |-> cursor + 1,
                   stashedNextRow |-> <<recoveredRow>>]
             ELSE MergeLoop(log, firstKey, processRow(accs, recoveredRow.aggs),
                            cursor + 1)

\* A plausible slip: the cursor is read before the stash is looked at, and an
\* exhausted cursor ends the reading.
getNextSpilledHelperCursorFirst(log, r) ==
    LET reset == ResizedRow(NumAggs)
    IN  IF r.rsCursor >= Len(log)
        THEN [key |-> <<>>, rowAggRS |-> reset, rsCursor |-> r.rsCursor,
              stashedNextRow |-> r.stashedNextRow]
        ELSE IF r.stashedNextRow # <<>>
        THEN MergeLoop(log, r.stashedNextRow[1].key,
                       processRow(reset, r.stashedNextRow[1].aggs), r.rsCursor)
        ELSE MergeLoop(log, log[r.rsCursor + 1].key,
                       processRow(reset, log[r.rsCursor + 1].aggs), r.rsCursor + 1)

\* A plausible slip: the scratch accumulators keep the values of the group
\* before.
ScratchKept(accs) == accs

\* getNextSpilledHelper(), its first loop: every scratch accumulator is
\* reset to Nothing.
ResetScratch(accs) == [idx \in 1..NumAggs |-> Nothing]

\* A plausible slip: a stashed record gives the group its key and is not
\* merged into it.
getNextSpilledHelperStashKeyOnly(log, r) ==
    LET reset == ResizedRow(NumAggs)
    IN  IF r.stashedNextRow # <<>>
        THEN MergeLoop(log, r.stashedNextRow[1].key, reset, r.rsCursor)
        ELSE IF r.rsCursor >= Len(log)
        THEN [key |-> <<>>, rowAggRS |-> reset, rsCursor |-> r.rsCursor,
              stashedNextRow |-> <<>>]
        ELSE MergeLoop(log, log[r.rsCursor + 1].key,
                       processRow(reset, log[r.rsCursor + 1].aggs), r.rsCursor + 1)

\* getNextSpilledHelper(): the key of the next group (<<>> for boost::none)
\* and the state it leaves.  r holds rsCursor, stashedNextRow and rowAggRS.
getNextSpilledHelper(log, r) ==
    LET reset == ResetScratch(r.rowAggRS)
    IN  IF r.stashedNextRow # <<>>
        THEN MergeLoop(log, r.stashedNextRow[1].key,
                       processRow(reset, r.stashedNextRow[1].aggs), r.rsCursor)
        ELSE IF r.rsCursor >= Len(log)
        THEN [key |-> <<>>, rowAggRS |-> reset, rsCursor |-> r.rsCursor,
              stashedNextRow |-> <<>>]
        ELSE MergeLoop(log, log[r.rsCursor + 1].key,
                       processRow(reset, log[r.rsCursor + 1].aggs), r.rsCursor + 1)

\* A plausible slip: the output loops run once too often.
OutLoopOneTooMany(n) == n <= kBlockOutSize

\* The bound of the output loops of getNextSpilled() and getNext().
OutLoopContinues(n) == n < kBlockOutSize

\* The loop of getNextSpilled() from resultIdx on.  g holds the reader's
\* state and the output blocks.
RECURSIVE SpilledLoop(_, _, _)
SpilledLoop(log, g, resultIdx) ==
    IF ~OutLoopContinues(resultIdx) THEN [g EXCEPT !.resultIdx = resultIdx]
    ELSE LET h == getNextSpilledHelper(log, g)
             g1 == [g EXCEPT !.rsCursor = h.rsCursor,
                             !.stashedNextRow = h.stashedNextRow,
                             !.rowAggRS = h.rowAggRS,
                             !.lastGroup = h.key]
         IN  IF h.key # <<>>
             THEN SpilledLoop(
                     log,
                     [g1 EXCEPT
                        !.outIdBlocks = [i \in 1..NumGbs |->
                                            Append(g.outIdBlocks[i], h.key[1][i])],
                        !.outAggBlocks = [i \in 1..NumAggs |->
                                             Append(g.outAggBlocks[i], h.rowAggRS[i])]],
                     resultIdx + 1)
             ELSE [g1 EXCEPT !.resultIdx = resultIdx]

\* getNextSpilled(): up to kBlockOutSize merged groups of the record store.
getNextSpilled(log, g) ==
    LET r == SpilledLoop(log, g, 0)
    IN  IF r.resultIdx = 0
        THEN [r EXCEPT !.state = "IS_EOF"]
        ELSE [r EXCEPT !.state = "ADVANCED", !.bitsetOut = populateBitmapSlot(r.resultIdx)]

\* A plausible slip: getNext() does not look at _done.
DoneNotChecked(d) == FALSE

\* getNext()'s test of _done, after it has moved _htIt.
DoneSeen(d) == d

\* A plausible slip: the call that finds the end of the table returns
\* ADVANCED even with an empty block.
StateAtTableEndAlwaysAdvanced(numRows) == "ADVANCED"

\* getNext() as _htIt reaches end(): IS_EOF if the block is empty, else
\* ADVANCED.
StateAtTableEnd(numRows) == IF numRows = 0 THEN "IS_EOF" ELSE "ADVANCED"

\* A plausible slip: an iterator on an entry is left where it is.
AdvanceItOnlyFromEnd(it, end) == IF it = end THEN 1 ELSE it

\* getNext()'s step of _htIt: from end() to begin(), otherwise to the next
\* entry.
AdvanceIt(it, end) == IF it = end THEN 1 ELSE it + 1

\* The loop of getNext() over the table from numRows on.  Every return
\* sets the bitmap slot to numRows (ON_BLOCK_EXIT).
RECURSIVE TableLoop(_, _, _, _)
TableLoop(h, order, g, numRows) ==
    IF ~OutLoopContinues(numRows)
    THEN [g EXCEPT !.state = "ADVANCED", !.bitsetOut = populateBitmapSlot(numRows)]
    ELSE LET end == Len(order) + 1
             it == AdvanceIt(g.htIt, end)
         IN  IF DoneSeen(g.done)
             THEN [g EXCEPT !.htIt = it, !.state = "IS_EOF", !.bitsetOut = populateBitmapSlot(numRows)]
             ELSE IF it = end
             THEN [g EXCEPT !.htIt = it, !.done = TRUE, !.bitsetOut = populateBitmapSlot(numRows),
                            !.state = StateAtTableEnd(numRows)]
             ELSE TableLoop(
                     h, order,
                     [g EXCEPT
                        !.htIt = it,
                        !.outIdBlocks = [i \in 1..NumGbs |->
                                            Append(g.outIdBlocks[i], order[it][i])],
                        !.outAggBlocks = [i \in 1..NumAggs |->
                                             Append(g.outAggBlocks[i], h[order[it]][i])]],
                     numRows + 1)

\* The output blocks as getNext() starts to fill them: cleared.
ClearedOutIds(ids) == EmptyOutIds
ClearedOutAggs(aggs) == EmptyOutAggs

\* The rows of the output blocks, as the parent reads them.
OutRows(ids, aggs) ==
    [r \in 1..Len(ids[1]) |->
        [key |-> [c \in 1..NumGbs |-> ids[c][r]],
         aggs |-> [i \in 1..NumAggs |-> aggs[i][r]]]]

\* A plausible slip: getNext() does not look at the interruption.
InterruptNotChecked(pending) == FALSE

\* checkForInterruptAndYield(_opCtx): raises if an interruption is pending.
checkForInterruptAndYield(pending) == pending

\* getNext() raising from its first statement: nothing of the stage changes.
GetNextInterrupted ==
    /\ pc' = "failed"
    /\ raised' = "interrupted"
    /\ UNCHANGED <<killPending, tableVars, done, rsCursor, stashedNextRow, rowAggRS,
                   outVars>>

\* getNext() past the interruption check: clears the output blocks and fills
\* them from the record store if the stage has spilled, from the table
\* otherwise.
GetNextBody ==
    /\ LET g == [htIt |-> htIt, done |-> done, rsCursor |-> rsCursor,
                 stashedNextRow |-> stashedNextRow, rowAggRS |-> rowAggRS,
                 outIdBlocks |-> ClearedOutIds(outIdBlocks),
                 outAggBlocks |-> ClearedOutAggs(outAggBlocks),
                 bitsetOut |-> bitsetOut, lastGroup |-> lastGroup,
                 state |-> "none", resultIdx |-> 0]
       IN  \E r \in {IF recordStore THEN getNextSpilled(rsLog, g)
                     ELSE TableLoop(ht, htOrder, g, 0)} :
           /\ htIt' = r.htIt
           /\ done' = r.done
           /\ rsCursor' = r.rsCursor
           /\ stashedNextRow' = r.stashedNextRow
           /\ rowAggRS' = r.rowAggRS
           /\ outIdBlocks' = r.outIdBlocks
           /\ outAggBlocks' = r.outAggBlocks
           /\ bitsetOut' = r.bitsetOut
           /\ lastState' = r.state
           /\ lastGroup' = r.lastGroup
           /\ emitted' = IF r.state = "ADVANCED"
                         THEN emitted \o OutRows(r.outIdBlocks, r.outAggBlocks)
                         ELSE emitted
           /\ advances' = IF r.state = "ADVANCED" THEN advances + 1 ELSE advances
    /\ UNCHANGED <<failVars, pc, htEngaged, ht, htOrder>>

\* getNext(): the interruption check, then the output.
GetNext ==
    /\ pc = "opened"
    /\ IF checkForInterruptAndYield(killPending)
       THEN GetNextInterrupted
       ELSE GetNextBody
    /\ UNCHANGED <<plannerVars, mapVars, configVars, statVars, childVars, blockVars, recordStore, rsLog,
                   spills, noSpillHt>>

(***************************************************************************)
(* close().                                                                *)
(***************************************************************************)
\* A plausible slip: close() leaves the stashed row where it is.
CloseKeepingStash ==
    /\ pc = "opened"
    /\ pc' = "closed"
    /\ childCloses' = childCloses + 2
    /\ htEngaged' = FALSE
    /\ ht' = EmptyHt
    /\ htOrder' = <<>>
    /\ htIt' = 1
    /\ rsCursor' = NullCursor
    /\ recordStore' = FALSE
    /\ rsLog' = <<>>
    /\ currentBlockSize' = 0
    /\ bitmapBlock' = NoBlock.bits
    /\ UNCHANGED <<plannerVars, mapVars, configVars, failVars, statVars, childEOF, childPulls, childRows, gbBlocks, dataBlocks,
                   tokenizedKeys, aggRuns, finds, aggCalls, htBefore, done, rowAggRS,
                   spills,
                   outVars, stashedNextRow, noSpillHt>>

\* close(): closes the child (twice), drops the table, the cursor, the record
\* store and the stashed row.
Close ==
    /\ pc = "opened"
    /\ pc' = "closed"
    /\ childCloses' = childCloses + 2
    /\ htEngaged' = FALSE
    /\ ht' = EmptyHt
    /\ htOrder' = <<>>
    /\ htIt' = 1
    /\ rsCursor' = NullCursor
    /\ recordStore' = FALSE
    /\ rsLog' = <<>>
    /\ stashedNextRow' = <<>>
    /\ currentBlockSize' = 0
    /\ bitmapBlock' = NoBlock.bits
    /\ UNCHANGED <<plannerVars, mapVars, configVars, failVars, statVars, childEOF, childPulls, childRows, gbBlocks, dataBlocks,
                   tokenizedKeys, aggRuns, finds, aggCalls, htBefore, done, rowAggRS,
                   spills,
                   outVars,
                   noSpillHt>>

(***************************************************************************)
(* Failures.  No function of the stage catches anything: what a callee     *)
(* raises ends the running open() or getNext() and reaches the caller.     *)
(***************************************************************************)
\* A plausible slip: what a pull raises is swallowed and the loop goes on.
AfterRaiseSkipped == "pull"

\* Where a call that raises leaves the stage: out of the call.
AfterRaise == "failed"

\* The child's getNext() checks for interruption as this stage's does.
ChildSeesInterrupt == killPending

\* open(): _children[0]->getNext() raises; a pending interruption is what the
\* child raises then.
ChildThrows ==
    /\ pc = "pull"
    /\ pc' = AfterRaise
    /\ raised' = IF ChildSeesInterrupt THEN "interrupted" ELSE "pull"
    /\ UNCHANGED <<plannerVars, mapVars, configVars, statVars, killPending, childVars, blockVars, tableVars, done,
                   storeVars, outVars, noSpillHt>>

\* open(): the child returns a block whose group-by column is not of the size
\* of its bitmap, and tassert 8608600 of tryTokenizeGbs() raises.
BlockSizeTassert(b) ==
    /\ pc = "pull"
    /\ ~SameSizeGbs(b.gbs, Len(b.bits))
    /\ childPulls' = childPulls + 1
    /\ bitmapBlock' = b.bits
    /\ currentBlockSize' = Len(b.bits)
    /\ gbBlocks' = b.gbs
    /\ dataBlocks' = b.data
    /\ htBefore' = ht
    /\ pc' = AfterRaise
    /\ raised' = "tassert"
    /\ UNCHANGED <<plannerVars, mapVars, configVars, statVars, killPending, childEOF, childCloses, childRows,
                   tokenizedKeys, aggRuns, finds, aggCalls, tableVars, done,
                   storeVars, outVars, noSpillHt>>

\* The records a spill has written when its append of record k + 1 raises.
SpilledBeforeRaise(order, k) ==
    [i \in 1..k |-> [key |-> order[i], aggs |-> ht[order[i]]]]

\* open(), in its loop: spill() raises from an append to the record store.
SpillThrows ==
    /\ pc = "memcheck"
    /\ ht # EmptyHt
    /\ \E order \in Orders(DOMAIN ht) : \E k \in 0..(Len(order) - 1) :
          rsLog' = rsLog \o SpilledBeforeRaise(order, k)
    /\ recordStore' = TRUE
    /\ pc' = AfterRaise
    /\ raised' = "append"
    /\ UNCHANGED <<plannerVars, mapVars, configVars, statVars, killPending, childVars, blockVars, tableVars, done,
                   rsCursor, stashedNextRow, rowAggRS, spills, outVars, noSpillHt>>

\* open(), after its loop: the final spill raises.
FinalSpillThrows ==
    /\ pc = "pull"
    /\ ~ChildSeesInterrupt
    /\ FinalSpillNeeded(SpillState)
    /\ childEOF' = TRUE
    /\ \E order \in Orders(DOMAIN ht) : \E k \in 0..(Len(order) - 1) :
          rsLog' = rsLog \o SpilledBeforeRaise(order, k)
    /\ pc' = AfterRaise
    /\ raised' = "append"
    /\ UNCHANGED <<plannerVars, mapVars, configVars, statVars, killPending, childPulls, childCloses, childRows,
                   blockVars, tableVars, done, recordStore, rsCursor, stashedNextRow,
                   rowAggRS, spills, outVars, noSpillHt>>

\* getNext() of a stage that has spilled: a read of the cursor raises, after
\* the output blocks were cleared.
GetNextReadThrows ==
    /\ pc = "opened"
    /\ ~checkForInterruptAndYield(killPending)
    /\ recordStore
    /\ outIdBlocks' = ClearedOutIds(outIdBlocks)
    /\ outAggBlocks' = ClearedOutAggs(outAggBlocks)
    /\ pc' = AfterRaise
    /\ raised' = "read"
    /\ UNCHANGED <<plannerVars, mapVars, configVars, statVars, killPending, childVars, blockVars, tableVars, done,
                   storeVars, bitsetOut, lastState, emitted, lastGroup, advances,
                   noSpillHt>>

\* Another thread marks the operation killed.
RequestKill ==
    /\ pc \in {"pull", "memcheck", "opened"}
    /\ ~killPending
    /\ killPending' = TRUE
    /\ UNCHANGED <<plannerVars, mapVars, configVars, statVars, raised, pc, childVars, blockVars, tableVars, done,
                   storeVars, outVars, noSpillHt>>

(***************************************************************************)
(* One execution of the stage: open(false), getNext() until the caller     *)
(* stops, close().                                                         *)
(***************************************************************************)
Next ==
    \/ pc = "unopened" /\ Open(FALSE)
    \/ \E b \in InputBlocks : ChildAdvanced(b)
    \/ MemCheck
    \/ ChildEOF
    \/ GetNext

Spec == Init /\ [][Next]_vars

(***************************************************************************)
(* The life of a stage: up to MaxExecutions executions, each open(false),  *)
(* getNext() as often as the caller likes, close(); the blocks have up to  *)
(* LifeRows rows over the keys of LifeGbVals.                              *)
(***************************************************************************)
MaxExecutions == 2
LifeRows == 2
LifeGbVals == {0, 1}

LifeInputBlocks ==
    {b \in InputBlocks :
        /\ Len(b.bits) <= LifeRows
        /\ \A i \in 1..Len(b.bits) : b.gbs[1][i] \in LifeGbVals}

LifeOpen == pc = "unopened" /\ Open(FALSE)

\* open(false) of a stage that was closed.
LifeOpenAgain ==
    /\ pc = "closed"
    /\ childCloses < 2 * MaxExecutions
    /\ Open(FALSE)

LifeNext ==
    \/ LifeOpen
    \/ LifeOpenAgain
    \/ \E b \in LifeInputBlocks : ChildAdvanced(b)
    \/ MemCheck
    \/ ChildEOF
    \/ GetNext
    \/ Close

LifeSpec == Init /\ [][LifeNext]_vars

(***************************************************************************)
(* Executions over ScenarioMaxBlocks blocks of ScenarioRows rows each with *)
(* keys of ScenarioGbVals, any selection bits: among them the blocks [A,A], [B,A], [B,B].*)
(***************************************************************************)
ScenarioMaxBlocks == 3
ScenarioRows == 2
ScenarioGbVals == {0, 1, 2}

ScenarioInputBlocks ==
    {b \in InputBlocks :
        /\ Len(b.bits) = ScenarioRows
        /\ \A i \in 1..ScenarioRows : b.gbs[1][i] \in ScenarioGbVals}

ScenarioOpen == pc = "unopened" /\ Open(FALSE)

ScenarioChildAdvanced(b) ==
    /\ childPulls < ScenarioMaxBlocks
    /\ AcceptBlock(b)

ScenarioNext ==
    \/ ScenarioOpen
    \/ \E b \in ScenarioInputBlocks : ScenarioChildAdvanced(b)
    \/ MemCheck
    \/ ChildEOF
    \/ GetNext

ScenarioSpec == Init /\ [][ScenarioNext]_vars

(***************************************************************************)
(* Executions with failures: the operation may be killed, the child and    *)
(* the record store may raise, and the child may return blocks whose       *)
(* columns are not of one size.                                            *)
(***************************************************************************)
FailMaxBlocks == 2
FailRows == 3

\* First group-by columns of n rows: one of two keys (tokenized path) and one
\* of three (element-wise path).
FailGbCols(n) ==
    {[i \in 1..n |-> IF i < n THEN 0 ELSE 1], [i \in 1..n |-> (i - 1) % 3]}

\* Blocks with a bitmap of FailRows rows: the group-by column may be a row
\* shorter or longer, the data column a row longer.
FailInputBlocks ==
    { [bits |-> bs, gbs |-> <<g, makeMonoBlock(FailRows, 5)>>, data |-> <<d>>] :
        bs \in [1..FailRows -> BOOLEAN],
        g \in UNION {FailGbCols(n) : n \in (FailRows - 1)..(FailRows + 1)},
        d \in {DataCol(FailRows), DataCol(FailRows + 1)} }

FailOpen == pc = "unopened" /\ Open(FALSE)

FailChildAdvanced(b) ==
    /\ ~ChildSeesInterrupt
    /\ childPulls < FailMaxBlocks
    /\ AcceptBlock(b)

FailBlockSizeTassert(b) ==
    /\ ~ChildSeesInterrupt
    /\ childPulls < FailMaxBlocks
    /\ BlockSizeTassert(b)

FailChildEOF == ~ChildSeesInterrupt /\ ChildEOF

FailNext ==
    \/ FailOpen
    \/ \E b \in FailInputBlocks : FailChildAdvanced(b)
    \/ \E b \in FailInputBlocks : FailBlockSizeTassert(b)
    \/ ChildThrows
    \/ MemCheck
    \/ SpillThrows
    \/ FailChildEOF
    \/ FinalSpillThrows
    \/ GetNext
    \/ GetNextReadThrows
    \/ RequestKill

FailSpec == Init /\ [][FailNext]_vars

(***************************************************************************)
(* Executions over blocks with two group-by columns that both vary from    *)
(* row to row, so that a partition is a pair of token indices.             *)
(***************************************************************************)
CompoundMaxBlocks == 1
CompoundRows == 3
CompoundGbVals == <<{0, 1}, {5, 6}>>

CompoundInputBlocks ==
    UNION {
        { [bits |-> bs, gbs |-> <<g1, g2>>, data |-> <<DataCol(n)>>] :
            bs \in [1..n -> BOOLEAN],
            g1 \in [1..n -> CompoundGbVals[1]],
            g2 \in [1..n -> CompoundGbVals[2]] }
        : n \in 1..CompoundRows }

CompoundOpen == pc = "unopened" /\ Open(FALSE)

CompoundChildAdvanced(b) ==
    /\ childPulls < CompoundMaxBlocks
    /\ AcceptBlock(b)

CompoundNext ==
    \/ CompoundOpen
    \/ \E b \in CompoundInputBlocks : CompoundChildAdvanced(b)
    \/ MemCheck
    \/ ChildEOF
    \/ GetNext

CompoundSpec == Init /\ [][CompoundNext]_vars

(***************************************************************************)
(* What the properties below speak of.                                     *)
(***************************************************************************)
\* open() has accumulated the current block and not yet checked the memory.
Accumulated == pc = "memcheck"

\* The rows of the current block whose selection bit is true.
SelectedRows == {i \in 1..currentBlockSize : bitmapBlock[i]}

\* The selected rows of the current block with the key k.
RowsOfKey(k) == {i \in SelectedRows : KeyOfRow(gbBlocks, i) = k}

\* The distinct keys of the current block, selected or not.
BlockKeys == {KeyOfRow(gbBlocks, i) : i \in 1..currentBlockSize}

\* The count and the sum a table holds for a key, 0 without an entry.
CountOf(h, k) == IF k \in DOMAIN h THEN IntOf(h[k][1]) ELSE 0
SumOf(h, k) == IF k \in DOMAIN h THEN IntOf(h[k][2]) ELSE 0

\* The sum of the data column over the rows S of the current block.
DataSum(S) ==
    SeqSum([i \in 1..currentBlockSize |-> IF i \in S THEN dataBlocks[1][i] ELSE 0])

StartOf(h) == [ht |-> h, aggRuns |-> 0, finds |-> 0, calls |-> <<>>]

\* The rows returned so far map each key of the never-spilled table to its
\* values there, one row per key.
EmittedIsNoSpillTable ==
    /\ {emitted[i] : i \in 1..Len(emitted)} =
           {[key |-> k, aggs |-> noSpillHt[k]] : k \in DOMAIN noSpillHt}
    /\ Len(emitted) = Cardinality(DOMAIN noSpillHt)

(***************************************************************************)
(* C1.  Whichever path accumulated the current block, the table is the one *)
(* the element-wise path makes of the table before and the block, and,     *)
(* where tokenization succeeds, the one the tokenized path makes: over a   *)
(* sequence of blocks the two paths build the same map of keys to values.  *)
(***************************************************************************)
C1_PathsAgree ==
    Accumulated =>
        /\ ht = runAccumulatorsElementWise(StartOf(htBefore), bitmapBlock,
                                           gbBlocks, dataBlocks).ht
        /\ tokenizedKeys.ok =>
              ht = runAccumulatorsTokenized(StartOf(htBefore), tokenizedKeys,
                                            bitmapBlock, dataBlocks).ht

\* The tokenized path has run on a block of two partitions with a masked row,
\* on top of a table that held one of the block's keys.
C1_Witness ==
    /\ Accumulated
    /\ tokenizedKeys.ok
    /\ Len(tokenizedKeys.keys) = 2
    /\ \E i \in 1..currentBlockSize : ~bitmapBlock[i]
    /\ \A k \in BlockKeys : RowsOfKey(k) # {}
    /\ \E k \in BlockKeys : k \in DOMAIN htBefore

(***************************************************************************)
(* C2.  With spilling forced after every block, the rows drained from the  *)
(* record store up to IS_EOF are those of the table the same input builds  *)
(* when nothing is spilled.                                                *)
(***************************************************************************)
C2_ForcedSpillSameAsNoSpill ==
    (forceIncreasedSpilling /\ pc = "opened" /\ lastState = "IS_EOF")
        => EmittedIsNoSpillTable

(***************************************************************************)
(* C3.  No two rows returned in one execution have the same group key.     *)
(***************************************************************************)
C3_OneRowPerKey ==
    \A i, j \in 1..Len(emitted) : i # j => emitted[i].key # emitted[j].key

(***************************************************************************)
(* C4.  A row whose selection bit is false adds to no group: each group's  *)
(* count and sum grow by the selected rows of its key and nothing else;    *)
(* the element-wise path looks up and runs accumulators only for selected  *)
(* rows, and the bitset the tokenized path binds for any partition is      *)
(* false at every unselected row.                                          *)
(***************************************************************************)
C4_MaskedRowsDoNotContribute ==
    Accumulated =>
        /\ \A k \in Keys :
              /\ CountOf(ht, k) = CountOf(htBefore, k) + Cardinality(RowsOfKey(k))
              /\ SumOf(ht, k) = SumOf(htBefore, k) + DataSum(RowsOfKey(k))
        /\ ~tokenizedKeys.ok =>
              /\ finds = Cardinality(SelectedRows)
              /\ aggRuns = NumAggs * Cardinality(SelectedRows)
        /\ tokenizedKeys.ok =>
              \A p \in 0..(Len(tokenizedKeys.keys) - 1) :
                 \A i \in 1..currentBlockSize :
                    ~bitmapBlock[i] =>
                        ~PartitionBitset(tokenizedKeys, bitmapBlock, p)[i]

\* The element-wise path has run on a block with a masked row whose key has
\* an entry in the table.
C4_Witness ==
    /\ Accumulated
    /\ ~tokenizedKeys.ok
    /\ \E i \in 1..currentBlockSize :
          ~bitmapBlock[i] /\ KeyOfRow(gbBlocks, i) \in DOMAIN ht
    /\ SelectedRows # {}

(***************************************************************************)
(* C5.  Every entry of the table has had a selected row of its key since   *)
(* the table was last empty.  A block adds or changes no entry for a key   *)
(* without a selected row in it (so an all-false block leaves the table as *)
(* it was, with no lookup), while every key with a selected row gets its   *)
(* entry.                                                                  *)
(***************************************************************************)
C5_EntriesOnlyForSelectedRows ==
    /\ \A k \in DOMAIN ht : CountOf(ht, k) >= 1
    /\ Accumulated =>
          /\ \A k \in Keys :
                IF RowsOfKey(k) = {}
                THEN /\ (k \in DOMAIN ht) = (k \in DOMAIN htBefore)
                     /\ k \in DOMAIN ht => ht[k] = htBefore[k]
                ELSE k \in DOMAIN ht
          /\ SelectedRows = {} => (ht = htBefore /\ finds = 0)

\* The tokenized path has run on a block of two partitions, one with all of
\* its rows masked out and none of them in the table, the other accumulated.
C5_Witness ==
    /\ Accumulated
    /\ tokenizedKeys.ok
    /\ Len(tokenizedKeys.keys) = 2
    /\ \E k \in BlockKeys : RowsOfKey(k) = {} /\ k \notin DOMAIN ht
    /\ \E k \in BlockKeys : RowsOfKey(k) # {} /\ k \in DOMAIN ht

(***************************************************************************)
(* C6.  Tokenization of a block succeeds exactly if the block has at most  *)
(* kMaxNumPartitionsForTokenizedPath distinct keys, counted over all of    *)
(* its rows, selected or not.                                              *)
(***************************************************************************)
C6_TokenizationCeiling ==
    Accumulated =>
        (tokenizedKeys.ok <=>
            Cardinality(BlockKeys) <= kMaxNumPartitionsForTokenizedPath)

\* Tokenization has succeeded on a block with exactly the ceiling of distinct
\* keys, one of them only in masked rows.
C6_Witness ==
    /\ Accumulated
    /\ tokenizedKeys.ok
    /\ Cardinality(BlockKeys) = kMaxNumPartitionsForTokenizedPath
    /\ \E k \in BlockKeys : RowsOfKey(k) = {}

(***************************************************************************)
(* C7.  The table is a map, one entry per key.  In every step the entries  *)
(* stay (with their keys) unless the whole table is cleared by a spill or  *)
(* by close(), and an entry appears only when open() accumulates a block   *)
(* with a selected row of its key that had no entry.                       *)
(***************************************************************************)
C7_EntriesCreatedOnceClearedWholesale ==
    [][ /\ DOMAIN ht \subseteq DOMAIN ht' \/ ht' = EmptyHt
        /\ ~(DOMAIN ht \subseteq DOMAIN ht') => (spills' = spills + 1 \/ ~htEngaged')
        /\ \A k \in DOMAIN ht' \ DOMAIN ht :
              /\ pc = "pull" /\ pc' = "memcheck"
              /\ \E i \in 1..currentBlockSize' :
                    bitmapBlock'[i] /\ KeyOfRow(gbBlocks', i) = k ]_vars

\* A block has changed an entry an earlier block made and made a new one.
C7_Witness ==
    /\ Accumulated
    /\ \E k \in DOMAIN htBefore : ht[k] # htBefore[k]
    /\ DOMAIN ht # DOMAIN htBefore

(***************************************************************************)
(* C8.  Looking a key up again is idempotent: on every table the stage     *)
(* reaches, a second find-or-emplace of a key, by either path, changes     *)
(* nothing after a first by either path, and a find-or-emplace of a key    *)
(* that has an entry leaves the table as it is; a block that looks up keys *)
(* which had an entry adds to their counts, it does not restart them.      *)
(***************************************************************************)
C8_LookupIdempotent ==
    /\ \A k \in Keys :
          LET b == BlockLevelFindOrEmplace(ht, k)
              r == RowLevelFindOrEmplace(ht, k)
          IN  /\ BlockLevelFindOrEmplace(b, k) = b
              /\ RowLevelFindOrEmplace(b, k) = b
              /\ BlockLevelFindOrEmplace(r, k) = r
              /\ RowLevelFindOrEmplace(r, k) = r
              /\ k \in DOMAIN ht => (b = ht /\ r = ht)
    /\ Accumulated =>
          \A k \in DOMAIN htBefore :
             /\ k \in DOMAIN ht
             /\ CountOf(ht, k) = CountOf(htBefore, k) + Cardinality(RowsOfKey(k))

\* The element-wise path has looked up a key that had an entry from an
\* earlier block.
C8_Witness ==
    /\ Accumulated
    /\ ~tokenizedKeys.ok
    /\ \E k \in DOMAIN htBefore : RowsOfKey(k) # {} /\ CountOf(htBefore, k) >= 1

(***************************************************************************)
(* C9.  The stage is blocking: open() has returned, and getNext() has      *)
(* returned anything, only after the child returned IS_EOF; getNext()      *)
(* pulls nothing from the child.                                           *)
(***************************************************************************)
C9_FullyBlocking ==
    /\ []((pc = "opened" \/ lastState # "none" \/ emitted # <<>>) => childEOF)
    /\ [][pc = "opened" => (childPulls' = childPulls /\ childEOF' = childEOF)]_vars

\* getNext() has returned a block after the child returned MaxBlocks blocks.
C9_Witness ==
    /\ lastState = "ADVANCED"
    /\ childPulls = MaxBlocks
    /\ childEOF

(***************************************************************************)
(* C10.  A block getNext() returns with ADVANCED has between one and       *)
(* kBlockOutSize rows, the same number in every key column and every       *)
(* accumulator column.                                                     *)
(***************************************************************************)
C10_OutputBlockSize ==
    lastState = "ADVANCED" =>
        LET n == Len(outIdBlocks[1])
        IN  /\ n >= 1
            /\ n <= kBlockOutSize
            /\ \A c \in 1..NumGbs : Len(outIdBlocks[c]) = n
            /\ \A i \in 1..NumAggs : Len(outAggBlocks[i]) = n

\* A full block has been returned from the record store, with more to come.
C10_Witness ==
    /\ lastState = "ADVANCED"
    /\ recordStore
    /\ Len(outIdBlocks[1]) = kBlockOutSize
    /\ stashedNextRow # <<>>

(***************************************************************************)
(* C11.  Whenever getNext() returned ADVANCED, from the table or from the  *)
(* record store, the bitmap out slot owns a block of trues, as many as the *)
(* rows of the output block.                                               *)
(***************************************************************************)
C11_OutputBitmapAllTrue ==
    lastState = "ADVANCED" =>
        /\ bitsetOut.tag = "valueBlock"
        /\ bitsetOut.owned
        /\ Len(bitsetOut.block) = Len(outIdBlocks[1])
        /\ \A i \in 1..Len(bitsetOut.block) : bitsetOut.block[i] = TRUE

\* The record store has given a full block and then a block of one row.
C11_Witness ==
    /\ lastState = "ADVANCED"
    /\ recordStore
    /\ Len(emitted) = kBlockOutSize + 1
    /\ bitsetOut.block = <<TRUE>>

(***************************************************************************)
(* C12.  Once getNext() has returned IS_EOF, a further getNext() (no       *)
(* open() in between) returns IS_EOF again and adds no row to the output.  *)
(***************************************************************************)
C12_EofIsSticky ==
    [][(pc = "opened" /\ lastState = "IS_EOF" /\ pc' = "opened")
          => (lastState' = "IS_EOF" /\ emitted' = emitted)]_vars

\* The table had kBlockOutSize groups, all returned in one block; getNext()
\* has since returned IS_EOF twice (the second call moved _htIt to begin()).
C12_Witness ==
    /\ pc = "opened"
    /\ ~recordStore
    /\ Len(htOrder) = kBlockOutSize
    /\ Len(emitted) = kBlockOutSize
    /\ done
    /\ lastState = "IS_EOF"
    /\ htIt = 1

\* What the records of a log add up to for the key k: counts and sums.
LogCount(log, k) ==
    SeqSum([i \in 1..Len(log) |-> IF log[i].key = k THEN IntOf(log[i].aggs[1]) ELSE 0])
LogSum(log, k) ==
    SeqSum([i \in 1..Len(log) |-> IF log[i].key = k THEN IntOf(log[i].aggs[2]) ELSE 0])

(***************************************************************************)
(* C13.  When open() has returned after a spill, the table is empty and    *)
(* the log holds all of the input: per key its records add up to the       *)
(* selected rows the child returned.  After open() the stage never has     *)
(* both entries in the table and records in the log.                       *)
(***************************************************************************)
C13_AllInLogAfterSpill ==
    pc = "opened" =>
        /\ recordStore =>
              /\ ht = EmptyHt
              /\ \A k \in Keys :
                    /\ LogCount(rsLog, k) = childRows[k]
                    /\ LogSum(rsLog, k) = SumOf(noSpillHt, k)
        /\ ~(ht # EmptyHt /\ rsLog # <<>>)

\* Without forced spilling, two blocks have left two spill events in the log,
\* with two partial records for one key.
C13_Witness ==
    /\ pc = "opened"
    /\ ~forceIncreasedSpilling
    /\ spills = 2
    /\ \E i, j \in 1..Len(rsLog) : i # j /\ rsLog[i].key = rsLog[j].key
    /\ ht = EmptyHt

(***************************************************************************)
(* C14.  A step that spills appends to the log one record for each entry   *)
(* of the table, with the entry's key and values, and leaves the table     *)
(* empty; no step of an execution changes or removes a record of the log.  *)
(* A block accumulated into the table a spill has emptied gives each of    *)
(* its keys an entry made of that block's rows alone.                      *)
(***************************************************************************)
C14_SpillFrame ==
    /\ [][ /\ Len(rsLog') >= Len(rsLog)
           /\ SubSeq(rsLog', 1, Len(rsLog)) = rsLog
           /\ spills' = spills + 1 =>
                 /\ Len(rsLog') = Len(rsLog) + Cardinality(DOMAIN ht)
                 /\ {rsLog'[i] : i \in (Len(rsLog) + 1)..Len(rsLog')} =
                        {[key |-> k, aggs |-> ht[k]] : k \in DOMAIN ht}
                 /\ ht' = EmptyHt
           /\ spills' = spills => rsLog' = rsLog ]_vars
    /\ []((Accumulated /\ htBefore = EmptyHt) =>
             \A k \in DOMAIN ht :
                /\ CountOf(ht, k) = Cardinality(RowsOfKey(k))
                /\ SumOf(ht, k) = DataSum(RowsOfKey(k)))

\* After a spill, a block has made a new entry for a key that has a record
\* in the log.
C14_Witness ==
    /\ Accumulated
    /\ spills >= 1
    /\ htBefore = EmptyHt
    /\ \E k \in DOMAIN ht : LogCount(rsLog, k) > 0

\* A row of output, or a record of the log, for the key k with the count c
\* and the sum d.
GroupRow(k, c, d) == [key |-> k, aggs |-> <<MkInt(c), MkInt(d)>>]

\* The rows returned so far with the key k.
EmittedFor(k) == {i \in 1..Len(emitted) : emitted[i].key = k}

(***************************************************************************)
(* C15.  Without a spill, the rows returned up to IS_EOF are one row for   *)
(* each key that a selected row of some block has, and none for any other  *)
(* key; the row's count is the number of selected rows with the key over   *)
(* all blocks.                                                             *)
(***************************************************************************)
C15_CountPerKeyWithoutSpill ==
    (pc = "opened" /\ lastState = "IS_EOF" /\ ~recordStore) =>
        \A k \in Keys :
           /\ Cardinality(EmittedFor(k)) = (IF childRows[k] > 0 THEN 1 ELSE 0)
           /\ \A i \in EmittedFor(k) : IntOf(emitted[i].aggs[1]) = childRows[k]

\* Three blocks of two selected rows, three rows for each of two keys A and B
\* (the sums are those of the blocks [A,A], [B,A], [B,B]), drained to IS_EOF
\* as the two groups A -> 3 and B -> 3.
C15_Witness ==
    /\ pc = "opened"
    /\ lastState = "IS_EOF"
    /\ ~recordStore
    /\ childPulls = 3
    /\ Len(emitted) = 2
    /\ \E A, B \in Keys :
          /\ A # B
          /\ {emitted[1], emitted[2]} = {GroupRow(A, 3, 5), GroupRow(B, 3, 4)}

\* The log of the blocks [A,A], [B,A], [B,B], all rows selected, each spilled
\* on its own.
ScenarioLog(A, B) ==
    /\ Len(rsLog) = 4
    /\ rsLog[1] = GroupRow(A, 2, 3)
    /\ {rsLog[2], rsLog[3]} = {GroupRow(A, 1, 2), GroupRow(B, 1, 1)}
    /\ rsLog[4] = GroupRow(B, 2, 3)

(***************************************************************************)
(* C16.  When the blocks [A,A], [B,A], [B,B] are each followed by a spill, *)
(* the rows returned from the log up to IS_EOF are the two groups A -> 3   *)
(* and B -> 3, and the log holds the records of three spill events, one    *)
(* record for each key of each event's table.                              *)
(***************************************************************************)
C16_ScenarioWithSpills ==
    \A A, B \in Keys :
       (A # B /\ pc = "opened" /\ lastState = "IS_EOF" /\ spills = 3
            /\ ScenarioLog(A, B))
          => /\ Len(emitted) = 2
             /\ {emitted[1], emitted[2]} = {GroupRow(A, 3, 5), GroupRow(B, 3, 4)}

(***************************************************************************)
(* The merge reader on its own: the stage as open() leaves it after spills *)
(* that wrote a log of up to MaxLog records, and getNext() taken one       *)
(* iteration of getNextSpilled()'s loop, one getNextSpilledHelper() call,  *)
(* at a time.  The i-th record has the count 1 and the sum 2^(i-1), which  *)
(* tells in a merged row the records it was merged from.                   *)
(***************************************************************************)
MaxLog == 5

ReaderLogs ==
    UNION {{[i \in 1..n |-> [key |-> ks[i], aggs |-> <<MkInt(1), MkInt(2 ^ (i - 1))>>]] :
               ks \in [1..n -> Keys]} : n \in 1..MaxLog}

\* What a table never spilled would hold for the records of a log.
TotalsOf(log) ==
    [k \in {log[i].key : i \in 1..Len(log)} |->
        <<MkInt(LogCount(log, k)), MkInt(LogSum(log, k))>>]

ReaderInit ==
    /\ forceIncreasedSpilling \in BOOLEAN
    /\ pc = "opened"
    /\ childEOF = TRUE
    /\ \E log \in ReaderLogs :
          /\ rsLog = log
          /\ childPulls = Len(log)
          /\ spills = Len(log)
          /\ childRows = [k \in Keys |-> LogCount(log, k)]
          /\ noSpillHt = TotalsOf(log)
    /\ childCloses = 0
    /\ bitmapBlock = NoBlock.bits
    /\ gbBlocks = NoBlock.gbs
    /\ dataBlocks = NoBlock.data
    /\ currentBlockSize = 0
    /\ tokenizedKeys = NoTokenizedKeys
    /\ aggRuns = 0
    /\ finds = 0
    /\ aggCalls = <<>>
    /\ htBefore = EmptyHt
    /\ htEngaged = TRUE
    /\ ht = EmptyHt
    /\ htOrder = <<>>
    /\ htIt = ItAfterOpen(<<>>)
    /\ done = FALSE
    /\ recordStore = TRUE
    /\ rsCursor = 0
    /\ stashedNextRow = <<>>
    /\ rowAggRS = ResizedRow(NumAggs)
    /\ outIdBlocks = EmptyOutIds
    /\ outAggBlocks = EmptyOutAggs
    /\ bitsetOut = NoBitsetOut
    /\ lastState = "none"
    /\ emitted = <<>>
    /\ lastGroup = <<>>
    /\ killPending = FALSE
    /\ raised = "none"
    /\ opens = 0
    /\ advances = 0
    /\ PlannerIdle
    /\ MapConstructed

\* getNext() of a stage that has spilled, up to the loop of getNextSpilled().
ReaderGetNext ==
    /\ pc = "opened"
    /\ ~checkForInterruptAndYield(killPending)
    /\ recordStore
    /\ pc' = "getNextSpilled"
    /\ outIdBlocks' = ClearedOutIds(outIdBlocks)
    /\ outAggBlocks' = ClearedOutAggs(outAggBlocks)
    /\ UNCHANGED <<plannerVars, mapVars, configVars, failVars, statVars, childVars, blockVars, tableVars, done, storeVars,
                   bitsetOut, lastState, emitted, lastGroup, advances, noSpillHt>>

\* getNextSpilled() leaves its loop and returns: IS_EOF if the output block
\* is empty, else ADVANCED with a bitmap of as many rows.
ReaderReturn ==
    /\ pc' = "opened"
    /\ IF Len(outIdBlocks'[1]) = 0
       THEN /\ lastState' = "IS_EOF"
            /\ UNCHANGED <<bitsetOut, emitted, advances>>
       ELSE /\ lastState' = "ADVANCED"
            /\ bitsetOut' = populateBitmapSlot(Len(outIdBlocks'[1]))
            /\ emitted' = emitted \o OutRows(outIdBlocks', outAggBlocks')
            /\ advances' = advances + 1

\* The loop's bound is reached: getNextSpilled() returns the full block.
ReaderBlockFull ==
    /\ pc = "getNextSpilled"
    /\ ~OutLoopContinues(Len(outIdBlocks[1]))
    /\ UNCHANGED <<outIdBlocks, outAggBlocks>>
    /\ ReaderReturn
    /\ UNCHANGED <<plannerVars, mapVars, configVars, failVars, statVars, childVars, blockVars, tableVars, done, storeVars,
                   lastGroup, noSpillHt>>

\* One iteration of the loop: a call of getNextSpilledHelper(); its group is
\* added to the output block, or there is none and getNextSpilled() returns.
ReaderIteration ==
    /\ pc = "getNextSpilled"
    /\ OutLoopContinues(Len(outIdBlocks[1]))
    /\ LET h == getNextSpilledHelper(rsLog, [rsCursor |-> rsCursor,
                                              stashedNextRow |-> stashedNextRow,
                                              rowAggRS |-> rowAggRS])
       IN  /\ rsCursor' = h.rsCursor
           /\ stashedNextRow' = h.stashedNextRow
           /\ rowAggRS' = h.rowAggRS
           /\ lastGroup' = h.key
           /\ IF h.key # <<>>
              THEN /\ outIdBlocks' = [i \in 1..NumGbs |->
                                         Append(outIdBlocks[i], h.key[1][i])]
                   /\ outAggBlocks' = [i \in 1..NumAggs |->
                                          Append(outAggBlocks[i], h.rowAggRS[i])]
                   /\ UNCHANGED <<pc, bitsetOut, lastState, emitted, advances>>
              ELSE /\ UNCHANGED <<outIdBlocks, outAggBlocks>>
                   /\ ReaderReturn
    /\ UNCHANGED <<plannerVars, mapVars, configVars, failVars, statVars, childVars, blockVars, tableVars, done,
                   recordStore, rsLog, spills, noSpillHt>>

ReaderNext ==
    \/ ReaderGetNext
    \/ ReaderIteration
    \/ ReaderBlockFull

ReaderSpec == ReaderInit /\ [][ReaderNext]_vars

\* The next step of the merge reader is a call of getNextSpilledHelper().
HelperCall == pc = "getNextSpilled" /\ OutLoopContinues(Len(outIdBlocks[1]))

\* The records of each key are next to one another in the log.
Contiguous(log) ==
    \A i, j, m \in 1..Len(log) :
       (i < j /\ j < m /\ log[i].key = log[m].key) => log[j].key = log[i].key

\* The last record of the run of records with one key that starts at i.
RunEnd(log, i) ==
    CHOOSE j \in i..Len(log) :
       /\ \A m \in i..j : log[m].key = log[i].key
       /\ j = Len(log) \/ log[j + 1].key # log[i].key

\* What the records i..j of a log merge to.
MergedRun(log, i, j) ==
    <<MkInt(SeqSum([m \in 1..Len(log) |->
                       IF m >= i /\ m <= j THEN IntOf(log[m].aggs[1]) ELSE 0])),
      MkInt(SeqSum([m \in 1..Len(log) |->
                       IF m >= i /\ m <= j THEN IntOf(log[m].aggs[2]) ELSE 0]))>>

(***************************************************************************)
(* C17.  A call of the merge reader that returns a group returns the run   *)
(* of records it starts at, merged from every record of the run; it fills  *)
(* the stash exactly if a record follows the run, with that record.  So    *)
(* for a log in which each key's records are contiguous, the groups        *)
(* returned up to IS_EOF are one per key, merged from all of the key's     *)
(* records, and the stash is filled once at each boundary of two keys.     *)
(***************************************************************************)
C17_ContiguousRunsMerged ==
    /\ [][ (HelperCall /\ lastGroup' # <<>>) =>
              LET first == IF stashedNextRow # <<>> THEN rsCursor ELSE rsCursor + 1
                  last == RunEnd(rsLog, first)
              IN  /\ lastGroup' = <<rsLog[first].key>>
                  /\ rowAggRS' = MergedRun(rsLog, first, last)
                  /\ IF last < Len(rsLog)
                     THEN /\ stashedNextRow' = <<rsLog[last + 1]>>
                          /\ rsCursor' = last + 1
                     ELSE /\ stashedNextRow' = <<>>
                          /\ rsCursor' = Len(rsLog) ]_vars
    /\ []((Contiguous(rsLog) /\ pc = "opened" /\ lastState = "IS_EOF") =>
             \A k \in Keys :
                /\ Cardinality(EmittedFor(k)) = (IF LogCount(rsLog, k) > 0 THEN 1 ELSE 0)
                /\ \A i \in EmittedFor(k) :
                      emitted[i] = GroupRow(k, LogCount(rsLog, k), LogSum(rsLog, k)))

\* The log of three records of K and then two of L has been read to IS_EOF:
\* the groups are K from the records 1..3 and L from the records 4..5.
C17_Witness ==
    /\ pc = "opened"
    /\ lastState = "IS_EOF"
    /\ Len(rsLog) = 5
    /\ \E K, L \in Keys :
          /\ K # L
          /\ [i \in 1..5 |-> rsLog[i].key] = <<K, K, K, L, L>>
          /\ emitted = <<GroupRow(K, 3, 7), GroupRow(L, 2, 24)>>

(***************************************************************************)
(* C18.  A call of the merge reader returns no group exactly if, as it     *)
(* starts, the stash is empty and the cursor has no record left; in every  *)
(* other case it returns a group, also when the end of the log ends the    *)
(* group's run.                                                            *)
(***************************************************************************)
C18_NoGroupOnlyWhenExhausted ==
    [][ HelperCall =>
           ((lastGroup' = <<>>) <=>
               (stashedNextRow = <<>> /\ rsCursor >= Len(rsLog))) ]_vars

\* The reader has returned the last record of the log as a group of its own,
\* taken from the stash with the cursor already exhausted.
C18_Witness ==
    /\ Len(rsLog) >= 2
    /\ rsLog[Len(rsLog)].key # rsLog[Len(rsLog) - 1].key
    /\ lastGroup = <<rsLog[Len(rsLog)].key>>
    /\ rowAggRS = rsLog[Len(rsLog)].aggs
    /\ stashedNextRow = <<>>
    /\ rsCursor = Len(rsLog)

\* The count the rows returned so far give the key k in all.
EmittedCount(k) ==
    SeqSum([i \in 1..Len(emitted) |->
               IF emitted[i].key = k THEN IntOf(emitted[i].aggs[1]) ELSE 0])

(***************************************************************************)
(* C19.  After close(), whatever state it was called in, the stage has no  *)
(* table, no cursor, no record store and no stashed record.                *)
(***************************************************************************)
C19_CloseReleasesEverything ==
    pc = "closed" =>
        /\ ~htEngaged
        /\ ht = EmptyHt
        /\ rsCursor = NullCursor
        /\ ~recordStore
        /\ rsLog = <<>>
        /\ stashedNextRow = <<>>

\* close() was called in the middle of a drain of the record store: a full
\* block had been returned and rows of some key were still to come, so the
\* record that ended the block's last group was in the stash.
C19_Witness ==
    /\ pc = "closed"
    /\ childCloses = 2
    /\ spills > 0
    /\ lastState = "ADVANCED"
    /\ Len(emitted) = kBlockOutSize
    /\ \E k \in Keys : childRows[k] > EmittedCount(k)

(***************************************************************************)
(* C20.  An execution opened after a close() and drained to IS_EOF without *)
(* a spill has returned one row for each key of the selected rows consumed *)
(* by that open(), with the count of those rows: what the execution before *)
(* reached does not count.                                                 *)
(***************************************************************************)
C20_ReopenedExecutionComplete ==
    (childCloses > 0 /\ pc = "opened" /\ lastState = "IS_EOF" /\ ~recordStore) =>
        \A k \in Keys :
           /\ Cardinality(EmittedFor(k)) = (IF childRows[k] > 0 THEN 1 ELSE 0)
           /\ \A i \in EmittedFor(k) : IntOf(emitted[i].aggs[1]) = childRows[k]


C22_FailuresAbortTheCall ==
    [][/\ pc # "failed"
       /\ raised' \in {"pull", "append", "read"} =>
            /\ raised = "none"
            /\ pc' = "failed"
            /\ UNCHANGED <<childPulls, lastState, emitted, ht, spills>>]_vars

\* A pull raised after a block had been accumulated: the table is left as it
\* was, with the entries of that block.
C22_Witness ==
    /\ pc = "failed"
    /\ raised = "pull"
    /\ childPulls = 1
    /\ ht # EmptyHt

\* The block the stage holds has a group-by or data column that is not of
\* the size of its bitmap.
MismatchedBlock ==
    /\ currentBlockSize > 0
    /\ \/ \E c \in 1..NumGbs : Len(gbBlocks[c]) # currentBlockSize
       \/ \E d \in 1..Len(dataBlocks) : Len(dataBlocks[d]) # currentBlockSize

(***************************************************************************)
(* C23: a block with a column that is not of the size of its bitmap ends   *)
(* in the fatal assertion before any entry of the table is created or      *)
(* updated from it.  Stated for the blocks that do not reach the tokenized *)
(* path (the assertion raised, or the element-wise path taken), where the  *)
(* accumulators see single rows and this file alone decides.               *)
(***************************************************************************)
C23_MismatchedBlockAsserts ==
    (MismatchedBlock /\ ~tokenizedKeys.ok /\ raised \in {"none", "tassert"}) =>
        /\ pc = "failed"
        /\ raised = "tassert"
        /\ ht = htBefore

\* The per-column token indices of row i of the current block.
CompoundKey(i) == [c \in 1..NumGbs |-> Tokenize(gbBlocks[c]).idxs[i]]

\* The first row of the current block that got the partition p.
FirstRowOf(p) ==
    CHOOSE i \in 1..currentBlockSize :
        /\ tokenizedKeys.idxs[i] = p
        /\ \A j \in 1..(i - 1) : tokenizedKeys.idxs[j] # p

(***************************************************************************)
(* C24: when the tokenization of a block succeeds with k keys, the rows'   *)
(* partitions are exactly 0..k-1, numbered in the order of their first     *)
(* rows; two rows have one partition if and only if their token indices    *)
(* agree in every column; and keys[p] holds the group-by values of the     *)
(* first row of partition p.                                               *)
(***************************************************************************)
C24_PartitionsInFirstSeenOrder ==
    (Accumulated /\ tokenizedKeys.ok) =>
        LET k == Len(tokenizedKeys.keys)
            idxs == tokenizedKeys.idxs
            rows == 1..currentBlockSize
        IN  /\ Len(idxs) = currentBlockSize
            /\ {idxs[i] : i \in rows} = 0..(k - 1)
            /\ k = Cardinality({CompoundKey(i) : i \in rows})
            /\ \A p, q \in 0..(k - 1) : p < q => FirstRowOf(p) < FirstRowOf(q)
            /\ \A i, j \in rows : idxs[i] = idxs[j] <=> CompoundKey(i) = CompoundKey(j)
            /\ \A p \in 0..(k - 1) :
                  tokenizedKeys.keys[p + 1] = KeyOfRow(gbBlocks, FirstRowOf(p))

\* Two partitions whose rows interleave and whose keys differ in both
\* columns: rows 1 and 3 are of the first, row 2 of the second.
C24_Witness ==
    /\ Accumulated
    /\ tokenizedKeys.ok
    /\ currentBlockSize = 3
    /\ tokenizedKeys.idxs = <<0, 1, 0>>
    /\ tokenizedKeys.keys = << <<1, 5>>, <<0, 6>> >>

\* The partitions of the current block that have a selected row.
LivePartitions ==
    {p \in 0..(Len(tokenizedKeys.keys) - 1) :
        \E i \in SelectedRows : tokenizedKeys.idxs[i] = p}

(***************************************************************************)
(* C25: every block is accumulated by exactly one path.  When tokenization *)
(* returns boost::none the table is what the element-wise path alone makes *)
(* of the table before, with one lookup per selected row; when it succeeds *)
(* the table is what the tokenized path alone makes, with one lookup per   *)
(* partition that has a selected row.  Either way every key's count grows  *)
(* by its selected rows: no row is counted twice or dropped.               *)
(***************************************************************************)
C25_ExactlyOnePath ==
    Accumulated =>
        /\ IF tokenizedKeys.ok
           THEN /\ ht = runAccumulatorsTokenized(StartOf(htBefore), tokenizedKeys,
                                                 bitmapBlock, dataBlocks).ht
                /\ finds = Cardinality(LivePartitions)
                /\ aggRuns = NumAggs * Cardinality(LivePartitions)
           ELSE /\ ht = runAccumulatorsElementWise(StartOf(htBefore), bitmapBlock,
                                                   gbBlocks, dataBlocks).ht
                /\ finds = Cardinality(SelectedRows)
                /\ aggRuns = NumAggs * Cardinality(SelectedRows)
        /\ \A k \in BlockKeys \cup DOMAIN ht \cup DOMAIN htBefore :
              /\ CountOf(ht, k) = CountOf(htBefore, k) + Cardinality(RowsOfKey(k))
              /\ SumOf(ht, k) = SumOf(htBefore, k) + DataSum(RowsOfKey(k))

\* Tokenization gave up on a block of three keys, two of them already in the
\* table, and the element-wise path accumulated its three selected rows.
C25_Witness ==
    /\ Accumulated
    /\ ~tokenizedKeys.ok
    /\ Cardinality(BlockKeys) > kMaxNumPartitionsForTokenizedPath
    /\ Cardinality(SelectedRows) = 3
    /\ Cardinality(DOMAIN htBefore) = 2
    /\ finds = 3

\* The selected rows of the current block that are of the partition p.
SelectedOfPartition(p) == {i \in SelectedRows : tokenizedKeys.idxs[i] = p}

(***************************************************************************)
(* C26: in the tokenized path the bitmap bound for the partition p is true *)
(* at row i exactly if row i is of p and the input bitmap is true at i,    *)
(* with one partition (the input bitmap is bound as it is) as with more;   *)
(* every selected row is selected in the bitmap of exactly one partition,  *)
(* and the entry of p's key has grown by just those rows.                  *)
(***************************************************************************)
C26_PartitionBitmapIsPartitionAndMask ==
    (Accumulated /\ tokenizedKeys.ok) =>
        LET parts == 0..(Len(tokenizedKeys.keys) - 1)
            bound(p) == PartitionBitset(tokenizedKeys, bitmapBlock, p)
        IN  /\ \A p \in parts :
                  /\ Len(bound(p)) = currentBlockSize
                  /\ \A i \in 1..currentBlockSize :
                        bound(p)[i] <=> (tokenizedKeys.idxs[i] = p /\ bitmapBlock[i])
                  /\ LET k == tokenizedKeys.keys[p + 1]
                     IN  /\ CountOf(ht, k) =
                               CountOf(htBefore, k) + Cardinality(SelectedOfPartition(p))
                         /\ SumOf(ht, k) =
                               SumOf(htBefore, k) + DataSum(SelectedOfPartition(p))
            /\ \A i \in SelectedRows :
                  Cardinality({p \in parts : bound(p)[i]}) = 1

\* The shortcut: a block of one partition with a selected and a masked row.
C26_Witness ==
    /\ Accumulated
    /\ tokenizedKeys.ok
    /\ Len(tokenizedKeys.keys) = 1
    /\ SelectedRows # {}
    /\ \E i \in 1..currentBlockSize : ~bitmapBlock[i]
    /\ DOMAIN ht = {tokenizedKeys.keys[1]}

\* The selected rows of the current block in increasing order.
SelectedInOrder ==
    LET Selected(i) == bitmapBlock[i]
    IN  SelectSeq([i \in 1..currentBlockSize |-> i], Selected)

(***************************************************************************)
(* C27: in the element-wise path the row-level accumulators run once per   *)
(* selected row and accumulator, row after row in increasing order and,    *)
(* within a row, accumulator after accumulator, each with the entry of the *)
(* row's key as the current entry and the row's data value bound as input: *)
(* (selected rows) x (accumulators) runs per block, and none for a masked  *)
(* row.                                                                    *)
(***************************************************************************)
C27_RowLevelRunsPerSelectedRow ==
    (Accumulated /\ ~tokenizedKeys.ok) =>
        /\ Len(aggCalls) = Cardinality(SelectedRows) * NumAggs
        /\ aggRuns = Len(aggCalls)
        /\ \A j \in 1..Len(aggCalls) :
              LET row == SelectedInOrder[((j - 1) \div NumAggs) + 1]
              IN  aggCalls[j] =
                     [path |-> "row", row |-> row, key |-> KeyOfRow(gbBlocks, row),
                      acc |-> ((j - 1) % NumAggs) + 1, input |-> dataBlocks[1][row]]
        /\ \A j \in 1..Len(aggCalls) : aggCalls[j].key \in DOMAIN ht

\* The element-wise path on a block of three keys whose second row is
\* masked: the runs are those of rows 1 and 3.
C27_Witness ==
    /\ Accumulated
    /\ ~tokenizedKeys.ok
    /\ bitmapBlock = <<TRUE, FALSE, TRUE>>
    /\ Len(aggCalls) = 2 * NumAggs
    /\ aggCalls[NumAggs + 1].row = 3

\* The partitions of the current block with a selected row, in increasing
\* order.
LivePartitionsInOrder ==
    LET Live(p) == p \in LivePartitions
    IN  SelectSeq([q \in 1..Len(tokenizedKeys.keys) |-> q - 1], Live)

(***************************************************************************)
(* C28: in the tokenized path the block-level accumulators run once per    *)
(* block and accumulator for every partition whose bound bitmap has a true *)
(* bit, with that bitmap bound and the entry of the partition's key as the *)
(* current entry, and not at all for a partition whose bitmap is all       *)
(* false; each result replaces the slot of that entry, and the entries of  *)
(* all other keys stay as they were.                                       *)
(***************************************************************************)
C28_BlockLevelRunsPerLivePartition ==
    (Accumulated /\ tokenizedKeys.ok) =>
        LET bound(p) == PartitionBitset(tokenizedKeys, bitmapBlock, p)
            liveKeys == {tokenizedKeys.keys[p + 1] : p \in LivePartitions}
        IN  /\ Len(aggCalls) = Cardinality(LivePartitions) * NumAggs
            /\ aggRuns = Len(aggCalls)
            /\ \A j \in 1..Len(aggCalls) :
                  LET p == LivePartitionsInOrder[((j - 1) \div NumAggs) + 1]
                  IN  aggCalls[j] =
                         [path |-> "block", key |-> tokenizedKeys.keys[p + 1],
                          acc |-> ((j - 1) % NumAggs) + 1, bitset |-> bound(p)]
            /\ \A j \in 1..Len(aggCalls) : ~allFalse(aggCalls[j].bitset)
            /\ \A p \in LivePartitions : \A i \in 1..NumAggs :
                  LET k == tokenizedKeys.keys[p + 1]
                      prev == IF k \in DOMAIN htBefore THEN htBefore[k][i] ELSE Nothing
                  IN  ht[k][i] = BlockAgg(i, prev, bound(p), dataBlocks)
            /\ DOMAIN ht = DOMAIN htBefore \cup liveKeys
            /\ \A k \in DOMAIN htBefore \ liveKeys : ht[k] = htBefore[k]

\* A block of two partitions on a table that holds both keys and a third:
\* the first partition has a masked and a selected row, the second only a
\* masked one.
C28_Witness ==
    /\ Accumulated
    /\ tokenizedKeys.ok
    /\ Len(tokenizedKeys.keys) = 2
    /\ LivePartitions = {0}
    /\ tokenizedKeys.idxs = <<0, 0, 1>>
    /\ bitmapBlock = <<TRUE, FALSE, FALSE>>
    /\ Len(aggCalls) = NumAggs
    /\ Cardinality(DOMAIN htBefore) = 3

(***************************************************************************)
(* C29: on every table the stage reaches, the entry a lookup miss creates  *)
(* has, before any accumulator runs on it, a row of one slot per           *)
(* accumulator, every slot Nothing, by either path, and the other entries  *)
(* are as they were; and in every state every entry's row has as many      *)
(* slots as there are accumulators.                                        *)
(***************************************************************************)
C29_NewEntryHasEmptySlots ==
    /\ \A k \in DOMAIN ht : Len(ht[k]) = NumAggs
    /\ \A k \in Keys \ DOMAIN ht :
          LET b == BlockLevelFindOrEmplace(ht, k)
              r == RowLevelFindOrEmplace(ht, k)
          IN  /\ DOMAIN b = DOMAIN ht \cup {k}
              /\ DOMAIN r = DOMAIN ht \cup {k}
              /\ Len(b[k]) = NumAggs
              /\ Len(r[k]) = NumAggs
              /\ \A i \in 1..NumAggs : b[k][i] = Nothing /\ r[k][i] = Nothing
              /\ \A j \in DOMAIN ht : b[j] = ht[j] /\ r[j] = ht[j]

\* A block has made an entry for a key that the table, not empty, did not
\* hold.
C29_Witness ==
    /\ Accumulated
    /\ htBefore # EmptyHt
    /\ \E k \in DOMAIN ht : k \notin DOMAIN htBefore
    /\ \E k \in Keys : k \notin DOMAIN ht

(***************************************************************************)
(* C30: with spilling forced the table is empty whenever open() is about   *)
(* to pull a block and when it has returned; the step after a block that   *)
(* left the table non-empty is exactly one spill, which writes one record  *)
(* per entry and empties the table, the step after a block that left it    *)
(* empty writes nothing and counts no spill, and the end of the input adds *)
(* no spill.                                                               *)
(***************************************************************************)
C30_ForcedSpillAfterEveryBlock ==
    /\ [](forceIncreasedSpilling =>
            /\ pc \in {"pull", "opened"} => ht = EmptyHt
            /\ Accumulated => htBefore = EmptyHt)
    /\ [][forceIncreasedSpilling =>
            /\ (Accumulated /\ ht # EmptyHt) =>
                  /\ ht' = EmptyHt
                  /\ spills' = spills + 1
                  /\ Len(rsLog') = Len(rsLog) + Cardinality(DOMAIN ht)
                  /\ recordStore'
            /\ (Accumulated /\ ht = EmptyHt) =>
                  UNCHANGED <<ht, spills, rsLog, recordStore>>
            /\ pc = "pull" => UNCHANGED <<spills, rsLog>>]_vars

\* Forced spilling, two blocks pulled: one left entries in the table and was
\* spilled, the other had no selected row and was not.
C30_Witness ==
    /\ forceIncreasedSpilling
    /\ pc = "pull"
    /\ childPulls = 2
    /\ spills = 1
    /\ ht = EmptyHt
    /\ Len(rsLog) >= 2

(***************************************************************************)
(* Executions where the stage, having spilled and returned a block that    *)
(* was not the end of its output, is opened again with reOpen = true and   *)
(* without a close() in between.                                           *)
(***************************************************************************)
MaxOpens == 2

ReOpenFirst == pc = "unopened" /\ Open(FALSE)

\* open(true) of a stage whose spilled output is partly drained: it has
\* returned a block, and a record is stashed or not yet read.
ReOpen ==
    /\ pc = "opened"
    /\ recordStore
    /\ lastState = "ADVANCED"
    /\ stashedNextRow # <<>> \/ rsCursor < Len(rsLog)
    /\ opens < MaxOpens
    /\ Open(TRUE)

ReOpenNext ==
    \/ ReOpenFirst
    \/ ReOpen
    \/ \E b \in LifeInputBlocks : ChildAdvanced(b)
    \/ MemCheck
    \/ ChildEOF
    \/ GetNext

ReOpenSpec == Init /\ [][ReOpenNext]_vars

(***************************************************************************)
(* C31.  When the stage is opened again (reOpen = true, no close) after an *)
(* execution that spilled and was partly drained, the output of the new    *)
(* execution is that of a fresh stage on the new input: once it has        *)
(* returned IS_EOF, the counts emitted for every key add up to the         *)
(* selected rows the new input has with that key.                          *)
(***************************************************************************)
C31_ReopenedOutputIsFresh ==
    (opens > 1 /\ pc = "opened" /\ lastState = "IS_EOF") =>
        \A k \in Keys : EmittedCount(k) = childRows[k]

(***************************************************************************)
(* Executions over TableMaxBlocks blocks of TableRows rows each, both      *)
(* group-by columns varying: tables of zero to four entries.               *)
(***************************************************************************)
TableMaxBlocks == 2
TableRows == 2

TableInputBlocks == {b \in CompoundInputBlocks : Len(b.bits) = TableRows}

TableOpen == pc = "unopened" /\ Open(FALSE)

TableChildAdvanced(b) ==
    /\ childPulls < TableMaxBlocks
    /\ AcceptBlock(b)

TableNext ==
    \/ TableOpen
    \/ \E b \in TableInputBlocks : TableChildAdvanced(b)
    \/ MemCheck
    \/ ChildEOF
    \/ GetNext

TableSpec == Init /\ [][TableNext]_vars

\* Executions over the blocks of TableInputBlocks that have every row
\* selected, with a caller that goes on calling getNext() as long as a call
\* changes anything.
DrainInputBlocks == {b \in TableInputBlocks : \A i \in 1..Len(b.bits) : b.bits[i]}

DrainNext ==
    \/ TableOpen
    \/ \E b \in DrainInputBlocks : TableChildAdvanced(b)
    \/ MemCheck
    \/ ChildEOF
    \/ GetNext

DrainSpec == Init /\ [][DrainNext]_vars /\ WF_vars(GetNext)

\* The entries of the table, as rows of the output.
TableRowsOf(h) == {[key |-> k, aggs |-> h[k]] : k \in DOMAIN h}

(***************************************************************************)
(* C32.  In an execution that has not spilled, the rows getNext() has      *)
(* returned are entries of the table, no entry twice, and once getNext()   *)
(* has returned IS_EOF they are all the entries: every entry of the table  *)
(* is returned exactly once, whatever the size of the table.               *)
(***************************************************************************)
C32_TableDrainedExactlyOnce ==
    (pc = "opened" /\ ~recordStore) =>
        /\ \A i \in 1..Len(emitted) : emitted[i] \in TableRowsOf(ht)
        /\ \A i, j \in 1..Len(emitted) : emitted[i] = emitted[j] => i = j
        /\ lastState = "IS_EOF" => Len(emitted) = Cardinality(DOMAIN ht)

\* A table of twice the block cap has been drained in two full blocks and
\* the third getNext() has returned IS_EOF.
C32_Witness ==
    /\ pc = "opened"
    /\ ~recordStore
    /\ lastState = "IS_EOF"
    /\ Cardinality(DOMAIN ht) = 2 * kBlockOutSize
    /\ Len(emitted) = 2 * kBlockOutSize

\* The groups the merge reader has made so far, in the order it made them:
\* those returned and those in the output block being filled.
GroupsSoFar ==
    emitted \o (IF pc = "getNextSpilled" THEN OutRows(outIdBlocks, outAggBlocks)
                ELSE <<>>)

\* The records of ReaderLogs a group was merged from, told by its sum: the
\* i-th record of the log adds 2^(i-1).
RecordsOf(g) ==
    {i \in 1..Len(rsLog) : (IntOf(g.aggs[2]) \div (2 ^ (i - 1))) % 2 = 1}

\* The least and the greatest of a non-empty set of record positions.
FirstOf(S) == CHOOSE i \in S : \A j \in S : i <= j
LastOf(S) == CHOOSE i \in S : \A j \in S : j <= i

(***************************************************************************)
(* C33.  The drain of the record store reads every record once and merges  *)
(* it into one group.  At every point of the drain each group made so far  *)
(* was merged from a run of consecutive records of its key, each counted   *)
(* once; the first group starts at the first record and each next group    *)
(* at the record that ended the group before it (the record that was       *)
(* stashed), whether or not an output block ended between the two; the     *)
(* records read are those of the groups and the stashed one; and at IS_EOF *)
(* every record of the log has been read and none is left in the stash.    *)
(***************************************************************************)
C33_EveryRecordMergedOnce ==
    LET gs == GroupsSoFar
    IN  /\ \A n \in 1..Len(gs) :
              LET R == RecordsOf(gs[n])
              IN  /\ R # {}
                  /\ R = FirstOf(R)..LastOf(R)
                  /\ \A i \in R : rsLog[i].key = gs[n].key
                  /\ IntOf(gs[n].aggs[1]) = Cardinality(R)
                  /\ IntOf(gs[n].aggs[2]) = SeqSum([i \in 1..Len(rsLog) |->
                                                     IF i \in R THEN 2 ^ (i - 1) ELSE 0])
                  /\ FirstOf(R) = (IF n = 1 THEN 1 ELSE LastOf(RecordsOf(gs[n - 1])) + 1)
        /\ stashedNextRow # <<>> =>
              /\ Len(gs) > 0
              /\ rsCursor = LastOf(RecordsOf(gs[Len(gs)])) + 1
              /\ stashedNextRow = <<rsLog[rsCursor]>>
        /\ (stashedNextRow = <<>> /\ Len(gs) > 0) =>
              rsCursor = LastOf(RecordsOf(gs[Len(gs)]))
        /\ (pc = "opened" /\ lastState = "IS_EOF") =>
              /\ stashedNextRow = <<>>
              /\ rsCursor = Len(rsLog)
              /\ UNION {RecordsOf(gs[n]) : n \in 1..Len(gs)} = 1..Len(rsLog)

\* The log K, L, L, K, K has been read to IS_EOF: the record that ended the
\* group of L, the fourth, was in the stash when the first output block,
\* full with two groups, was returned, and is the first record of the third
\* group.
C33_Witness ==
    /\ pc = "opened"
    /\ lastState = "IS_EOF"
    /\ Len(rsLog) = 5
    /\ \E K, L \in Keys :
          /\ K # L
          /\ [i \in 1..5 |-> rsLog[i].key] = <<K, L, L, K, K>>
          /\ emitted = <<GroupRow(K, 1, 1), GroupRow(L, 2, 6), GroupRow(K, 2, 24)>>

\* What merging the records i..j of a log, in their order, makes of the
\* scratch accumulators accs.
RECURSIVE MergedInto(_, _, _, _)
MergedInto(accs, log, i, j) ==
    IF i > j THEN accs
    ELSE MergedInto(processRow(accs, log[i].aggs), log, i + 1, j)

\* The count of the groups before the n-th of a sequence of groups, in all.
CountBefore(gs, n) ==
    SeqSum([m \in 1..Len(gs) |-> IF m < n THEN IntOf(gs[m].aggs[1]) ELSE 0])

(***************************************************************************)
(* C34.  Each group of the merge reader is computed from empty scratch     *)
(* accumulators: its values are what merging its own records, those that   *)
(* follow the records of the groups before it, makes of accumulators that  *)
(* all hold Nothing, so nothing of an earlier group is in them.  A call    *)
(* that finds no record leaves the scratch accumulators reset.             *)
(***************************************************************************)
C34_GroupsStartFromEmptyScratch ==
    LET gs == GroupsSoFar
    IN  /\ \A n \in 1..Len(gs) :
              LET before == CountBefore(gs, n)
                  own == IntOf(gs[n].aggs[1])
              IN  /\ before + own <= Len(rsLog)
                  /\ gs[n].aggs = MergedInto([idx \in 1..NumAggs |-> Nothing], rsLog,
                                             before + 1, before + own)
        /\ (pc = "opened" /\ lastState = "IS_EOF") =>
              rowAggRS = [idx \in 1..NumAggs |-> Nothing]

\* The log K, K, L has been read to IS_EOF: the group of L, computed after
\* the scratch accumulators held the merged values of K, has the values of
\* its one record only, and the call that found the log exhausted left the
\* scratch accumulators reset.
C34_Witness ==
    /\ pc = "opened"
    /\ lastState = "IS_EOF"
    /\ Len(rsLog) = 3
    /\ rowAggRS = [idx \in 1..NumAggs |-> Nothing]
    /\ \E K, L \in Keys :
          /\ K # L
          /\ [i \in 1..3 |-> rsLog[i].key] = <<K, K, L>>
          /\ emitted = <<GroupRow(K, 2, 3), GroupRow(L, 1, 4)>>

\* n over d, rounded up.
CeilDiv(n, d) == (n + d - 1) \div d

(***************************************************************************)
(* C35.  After open() has consumed a finite input, a caller that goes on   *)
(* calling getNext() gets IS_EOF after finitely many ADVANCED results,     *)
(* whether the stage drains its table or its record store; the ADVANCED    *)
(* results so far are the groups returned so far over the block cap,       *)
(* rounded up, and so are those of the whole drain at IS_EOF.              *)
(***************************************************************************)
C35_DrainTerminates ==
    /\ [](pc = "opened" => advances = CeilDiv(Len(emitted), kBlockOutSize))
    /\ (pc = "opened") ~> (pc = "opened" /\ lastState = "IS_EOF")

\* A drain of the record store has ended: three groups were returned by two
\* ADVANCED results, a full block and a block of one group, before IS_EOF.
C35_Witness ==
    /\ pc = "opened"
    /\ recordStore
    /\ lastState = "IS_EOF"
    /\ Len(emitted) = kBlockOutSize + 1
    /\ advances = 2

(***************************************************************************)
(* C36.  Each close() of the stage closes its child exactly once: where    *)
(* every execution is closed before the next is opened, a closed stage has *)
(* closed its child as often as it was opened.                             *)
(***************************************************************************)
C36_ChildClosedOncePerClose ==
    pc = "closed" => childCloses = opens

(***************************************************************************)
(* makePlannerForCacheEntry() (cached_planner.cpp): a plan recovered from  *)
(* the plan cache is handed on as it is if its entry is pinned; otherwise  *)
(* it gets a trial run, and the outcome of the trial decides between       *)
(* keeping the plan and replanning the query.  The trial run is taken one  *)
(* step of the plan at a time.                                             *)
(***************************************************************************)
\* The server parameter of the same name (an integer here).
internalQueryCacheEvictionRatio == 2
\* The decisionWorks of the cache entries considered.
MaxDecisionReads == 3
\* trial_period::getTrialPeriodNumToReturn(): the results a trial collects.
MaxNumResults == 2

\* The cache entries handed to makePlannerForCacheEntry(): pinned, or with
\* the reads the plan needed when it was cached.
DecisionReadsChoices == {<<>>} \cup {<<n>> : n \in 1..MaxDecisionReads}

\* A plausible slip: every cache entry gets a trial run.
isPinnedCacheEntryNever(dr) == FALSE

\* makePlannerForCacheEntry(): isPinnedCacheEntry.
isPinnedCacheEntry(dr) == dr = <<>>

\* makePlannerForCacheEntry(): maxReadsBeforeReplan.
maxReadsBeforeReplan(dr) == internalQueryCacheEvictionRatio * dr[1]

\* The pass-through planner made of the plan of a pinned entry.
PinnedPlanner == [kind |-> "SingleSolutionPassthroughPlanner", plan |-> "cachedPlan",
                  cachingMode |-> "none", replanReason |-> "none"]

\* collectExecutionStatsForCachedPlan(): the candidate as the trial starts.
TrialCandidate == [status |-> "OK", exitedEarly |-> FALSE, numReads |-> 0, numResults |-> 0]

\* makePlannerForCacheEntry() up to the trial run: a pinned entry returns a
\* pass-through planner of the cached plan, any other starts the trial.
MakePlannerForCacheEntry(dr) ==
    /\ plannerPc = "idle"
    /\ decisionReads' = dr
    /\ IF isPinnedCacheEntry(dr)
       THEN /\ planner' = PinnedPlanner
            /\ plannerPc' = "done"
            /\ UNCHANGED candidate
       ELSE /\ candidate' = TrialCandidate
            /\ plannerPc' = "trial"
            /\ UNCHANGED planner
    /\ UNCHANGED <<stageVars, mapVars, cacheEntryActive, registeredPlans, replanCalls>>

\* The tracker's callback for kNumReads: it ends the trial.
onMetricReached(metric) == metric = "kNumReads"

\* The tracker: a metric has gone over its limit.
TrackerExceeded(numReads, maxReads) == numReads > maxReads

\* The trial run makes a physical read; the tracker ends the trial when the
\* reads go over maxReadsBeforeReplan.
TrialRead ==
    /\ plannerPc = "trial"
    /\ LET reads == candidate.numReads + 1
           stop == /\ TrackerExceeded(reads, maxReadsBeforeReplan(decisionReads))
                   /\ onMetricReached("kNumReads")
       IN  /\ candidate' = [candidate EXCEPT !.numReads = reads, !.exitedEarly = stop]
           /\ plannerPc' = IF stop THEN "collected" ELSE "trial"
    /\ UNCHANGED <<stageVars, mapVars, decisionReads, cacheEntryActive, registeredPlans,
                   replanCalls, planner>>

\* The trial run returns a document; maxNumResults documents end the trial.
TrialResult ==
    /\ plannerPc = "trial"
    /\ candidate' = [candidate EXCEPT !.numResults = @ + 1]
    /\ plannerPc' = IF candidate'.numResults >= MaxNumResults THEN "collected" ELSE "trial"
    /\ UNCHANGED <<stageVars, mapVars, decisionReads, cacheEntryActive, registeredPlans,
                   replanCalls, planner>>

\* The plan reaches EOF: the trial ends.
TrialEOF ==
    /\ plannerPc = "trial"
    /\ plannerPc' = "collected"
    /\ UNCHANGED <<stageVars, mapVars, decisionReads, candidate, cacheEntryActive,
                   registeredPlans, replanCalls, planner>>

\* The plan fails: the trial ends with a failure Status.
TrialFails ==
    /\ plannerPc = "trial"
    /\ candidate' = [candidate EXCEPT !.status = "failed"]
    /\ plannerPc' = "collected"
    /\ UNCHANGED <<stageVars, mapVars, decisionReads, cacheEntryActive, registeredPlans,
                   replanCalls, planner>>

\* A plausible slip: the result of every replanning is cached.
cachingModeAlwaysCache(shouldCache) == "AlwaysCache"

\* replan(): cachingMode.
cachingMode(shouldCache) == IF shouldCache THEN "AlwaysCache" ELSE "NeverCache"

\* What QueryPlanner::plan() can come to: a failure, one solution, several.
PlanOutcomes == {"failed", "one", "many"}

\* replan(): the planner it returns for the solutions of QueryPlanner::plan,
\* NoPlanner where uassertStatusOK raises.
replan(outcome, replanReason, shouldCache) ==
    IF outcome = "failed" THEN NoPlanner
    ELSE IF outcome = "one"
    THEN [kind |-> "SingleSolutionPassthroughPlanner", plan |-> "solution",
          cachingMode |-> "none", replanReason |-> replanReason]
    ELSE [kind |-> "MultiPlanner", plan |-> "solutions",
          cachingMode |-> cachingMode(shouldCache), replanReason |-> replanReason]

\* A plausible slip: a failed trial evicts the cache entry too.
DeactivatesOnFailureToo(cand) == cand.status # "OK" \/ cand.exitedEarly

\* makePlannerForCacheEntry(): the trial's outcome for which the cache entry
\* is deactivated.
Deactivates(cand) == cand.status = "OK" /\ cand.exitedEarly

\* makePlannerForCacheEntry(): the trial's outcomes for which it replans.
Replans(cand) == cand.status # "OK" \/ cand.exitedEarly

\* makePlannerForCacheEntry() after the trial run: a failed trial replans
\* without caching, a trial that exited early deactivates the cache entry
\* and replans with caching, any other returns the candidate's planner.
AfterTrial ==
    /\ plannerPc = "collected"
    /\ cacheEntryActive' = IF Deactivates(candidate) THEN FALSE ELSE cacheEntryActive
    /\ IF Replans(candidate)
       THEN LET shouldCache == candidate.status = "OK"
                reason == IF candidate.status = "OK" THEN "less efficient" ELSE "failed"
            IN  /\ replanCalls' = Append(replanCalls, shouldCache)
                /\ registeredPlans' = FALSE
                /\ \E outcome \in PlanOutcomes :
                      /\ planner' = replan(outcome, reason, shouldCache)
                      /\ plannerPc' = IF outcome = "failed" THEN "raised" ELSE "done"
       ELSE /\ planner' = [kind |-> "ValidCandidatePlanner", plan |-> "candidate",
                           cachingMode |-> "none", replanReason |-> "none"]
            /\ plannerPc' = "done"
            /\ UNCHANGED <<replanCalls, registeredPlans>>
    /\ UNCHANGED <<stageVars, mapVars, decisionReads, candidate>>

PlannerNext ==
    \/ \E dr \in DecisionReadsChoices : MakePlannerForCacheEntry(dr)
    \/ TrialRead
    \/ TrialResult
    \/ TrialEOF
    \/ TrialFails
    \/ AfterTrial

PlannerSpec == Init /\ [][PlannerNext]_vars

\* makePlannerForCacheEntry() has returned or raised.
PlannerReturned == plannerPc \in {"done", "raised"}

(***************************************************************************)
(* C37.  When the trial run of a cached plan that is not pinned ends with  *)
(* a failure Status, makePlannerForCacheEntry() replans the query once,    *)
(* with shouldCache = false, and leaves the plan cache entry active: the   *)
(* planner it returns is one of replan(), never one that always caches,    *)
(* and a MultiPlanner among them has the mode NeverCache.                  *)
(***************************************************************************)
C37_FailedTrialReplansWithoutCaching ==
    (PlannerReturned /\ candidate.status = "failed") =>
        /\ replanCalls = <<FALSE>>
        /\ cacheEntryActive
        /\ planner.cachingMode # "AlwaysCache"
        /\ plannerPc = "done" =>
              /\ planner.kind \in {"SingleSolutionPassthroughPlanner", "MultiPlanner"}
              /\ planner.plan \in {"solution", "solutions"}
              /\ planner.replanReason = "failed"
              /\ planner.kind = "MultiPlanner" => planner.cachingMode = "NeverCache"

\* The trial failed after a read and replanning found several solutions: a
\* MultiPlanner that never caches was returned and the entry is active.
C37_Witness ==
    /\ plannerPc = "done"
    /\ candidate.status = "failed"
    /\ candidate.numReads > 0
    /\ planner.kind = "MultiPlanner"
    /\ planner.cachingMode = "NeverCache"
    /\ cacheEntryActive

(***************************************************************************)
(* C38.  makePlannerForCacheEntry() deactivates the plan cache entry       *)
(* exactly if the trial run ended with an OK status and exited early, that *)
(* is, if it needed more than internalQueryCacheEvictionRatio times        *)
(* decisionReads reads; it then replans once with shouldCache = true (a    *)
(* MultiPlanner gets AlwaysCache).  A trial that neither failed nor exited *)
(* early is not replanned: the planner returned holds the candidate of the *)
(* trial with the results it collected.                                    *)
(***************************************************************************)
C38_DeactivatesIffEarlyExit ==
    PlannerReturned =>
        /\ ~cacheEntryActive <=> (candidate.status = "OK" /\ candidate.exitedEarly)
        /\ candidate.exitedEarly <=>
              (candidate.status = "OK" /\ decisionReads # <<>>
                 /\ candidate.numReads > internalQueryCacheEvictionRatio * decisionReads[1])
        /\ (candidate.status = "OK" /\ candidate.exitedEarly) =>
              /\ replanCalls = <<TRUE>>
              /\ planner.cachingMode # "NeverCache"
              /\ planner.kind = "MultiPlanner" => planner.cachingMode = "AlwaysCache"
        /\ (candidate.status = "OK" /\ ~candidate.exitedEarly) =>
              /\ replanCalls = <<>>
              /\ plannerPc = "done"
              /\ planner.kind = "ValidCandidatePlanner"
              /\ planner.plan = "candidate"

\* A trial of a plan cached with two reads exited early at its fifth read:
\* the entry is deactivated and a MultiPlanner that caches was returned.
C38_Witness ==
    /\ plannerPc = "done"
    /\ decisionReads = <<2>>
    /\ candidate.status = "OK"
    /\ candidate.exitedEarly
    /\ candidate.numReads = 5
    /\ ~cacheEntryActive
    /\ planner.kind = "MultiPlanner"
    /\ planner.cachingMode = "AlwaysCache"

(***************************************************************************)
(* C39.  For a pinned cache entry (no decisionReads) there is no trial     *)
(* run, the cache entry stays active, replan() is not called, and the      *)
(* planner returned is a pass-through planner of the cached plan.          *)
(***************************************************************************)
C39_PinnedEntryPassedThrough ==
    (plannerPc # "idle" /\ decisionReads = <<>>) =>
        /\ plannerPc = "done"
        /\ candidate = NoCandidate
        /\ cacheEntryActive
        /\ registeredPlans
        /\ replanCalls = <<>>
        /\ planner = PinnedPlanner

\* makePlannerForCacheEntry() has returned for a pinned entry.
C39_Witness ==
    /\ plannerPc = "done"
    /\ decisionReads = <<>>
    /\ planner.kind = "SingleSolutionPassthroughPlanner"
    /\ planner.plan = "cachedPlan"

(***************************************************************************)
(* MeasurementMap (measurement_map.cpp): one column builder per field of a *)
(* bucket's measurements.  A column is the sequence of its positions, each *)
(* a value or a skip.                                                      *)
(***************************************************************************)
MaxMeasurements == 3
MaxInitMeasurements == 2
MaxElems == 2
MapFields == {"a", "b", "c"}
MapValues == {1, 2}

\* The positions of a column: BSONColumnBuilder::skip() and append(elem).
Skip == <<"skip", 0>>
Elem(v) == <<"value", v>>

\* The data fields of one measurement: elements with pairwise distinct field
\* names, in the order of the document.
OneMeasurementDataFields ==
    UNION {{es \in [1..n -> [name : MapFields, value : MapValues]] :
               \A i, j \in 1..n : es[i].name = es[j].name => i = j} : n \in 0..MaxElems}

\* A measurement as a map of its field names to their values.
FieldsOf(elems) ==
    [f \in {elems[i].name : i \in 1..Len(elems)} |->
        (CHOOSE e \in {elems[i] : i \in 1..Len(elems)} : e.name = f).value]

\* The data documents of buckets of n measurements: a compressed column of n
\* positions for every field some measurement of the bucket has.
BucketDataDocs(n) ==
    UNION {{doc \in [F -> [1..n -> {Skip} \cup {Elem(v) : v \in MapValues}]] :
               \A f \in F : \E k \in 1..n : doc[f][k] # Skip} : F \in SUBSET MapFields}

\* The size of a compressed column, counted in positions.
binLength(column) == Len(column)

RECURSIVE SumOver(_, _)
SumOver(S, doc) ==
    IF S = {} THEN 0
    ELSE LET f == CHOOSE x \in S : TRUE
         IN  binLength(doc[f]) + SumOver(S \ {f}, doc)

\* initBuilders(): a builder for every column of the bucket's data document,
\* made of the column's binary, and the number of measurements as given.
InitBuilders(doc, numMeasurements) ==
    /\ mapPc = "constructed"
    /\ mapPc' = "inUse"
    /\ builders' = doc
    /\ compressedSize' = compressedSize + SumOver(DOMAIN doc, doc)
    /\ measurementCount' = numMeasurements
    /\ measurements' = [k \in 1..numMeasurements |->
                           [f \in {g \in DOMAIN doc : doc[g][k] # Skip} |-> doc[f][k][2]]]
    /\ UNCHANGED <<stageVars, plannerVars>>

\* A plausible slip: the count is incremented before the new builder is
\* filled with skips.
SkipsForNewKeyAfterIncrement(count) == count + 1

\* insertOne(): the skips a builder of a new field starts with.
SkipsForNewKey(count) == count

\* _insertNewKey(): appends the element to the builder and puts the builder
\* into the map.
insertNewKey(b, key, elem, builder) == (key :> Append(builder, elem)) @@ b

\* _fillSkipsInMissingFields(): a skip for every builder whose field is not
\* in the measurement.
fillSkipsInMissingFields(b, fieldsSeen) ==
    [f \in DOMAIN b |-> IF f \in fieldsSeen THEN b[f] ELSE Append(b[f], Skip)]

\* insertOne(), its loop over the elements from the i-th on.
RECURSIVE InsertLoop(_, _, _, _)
InsertLoop(b, elems, i, count) ==
    IF i > Len(elems) THEN b
    ELSE LET key == elems[i].name
         IN  IF key \notin DOMAIN b
             THEN InsertLoop(insertNewKey(b, key, Elem(elems[i].value),
                                          [k \in 1..SkipsForNewKey(count) |-> Skip]),
                             elems, i + 1, count)
             ELSE InsertLoop([b EXCEPT ![key] = Append(@, Elem(elems[i].value))],
                             elems, i + 1, count)

\* insertOne(): appends every element to the builder of its field, counts
\* the measurement and fills the other builders with a skip.
InsertOne(elems) ==
    /\ measurementCount < MaxMeasurements
    /\ mapPc' = "inUse"
    /\ builders' = fillSkipsInMissingFields(
                       InsertLoop(builders, elems, 1, measurementCount),
                       {elems[i].name : i \in 1..Len(elems)})
    /\ measurementCount' = measurementCount + 1
    /\ measurements' = Append(measurements, FieldsOf(elems))
    /\ UNCHANGED <<stageVars, plannerVars, compressedSize>>

MapNext ==
    \/ \E n \in 0..MaxInitMeasurements : \E doc \in BucketDataDocs(n) : InitBuilders(doc, n)
    \/ \E elems \in OneMeasurementDataFields : InsertOne(elems)

MapSpec == Init /\ [][MapNext]_vars

(***************************************************************************)
(* C40.  After initBuilders() for a bucket of n measurements and any       *)
(* insertOne() calls with pairwise distinct field names, every builder     *)
(* holds exactly _measurementCount positions: the k-th is the value the    *)
(* k-th measurement has for the field, and a skip if it has none.  So a    *)
(* field first seen in a later measurement starts with a skip for each     *)
(* earlier one, a known field gets one skip for a measurement without it,  *)
(* and there is a builder for every field seen and no other.               *)
(***************************************************************************)
C40_BuildersHoldOnePositionPerMeasurement ==
    /\ Len(measurements) = measurementCount
    /\ DOMAIN builders = UNION {DOMAIN measurements[k] : k \in 1..measurementCount}
    /\ \A f \in DOMAIN builders :
          /\ Len(builders[f]) = measurementCount
          /\ \A k \in 1..measurementCount :
                builders[f][k] = (IF f \in DOMAIN measurements[k]
                                  THEN Elem(measurements[k][f]) ELSE Skip)

\* Three measurements: a is in the first and the third, c only in the third:
\* the builder of a has a skip for the second, that of c starts with two.
C40_Witness ==
    /\ measurementCount = 3
    /\ "a" \in DOMAIN builders
    /\ "c" \in DOMAIN builders
    /\ builders["a"] = <<Elem(1), Skip, Elem(2)>>
    /\ builders["c"] = <<Skip, Skip, Elem(1)>>
============================================================================
